---------------------------- MODULE Spec2Model ----------------------------
(***************************************************************************)
(* Legal Aid Student Portal, browser client.                               *)
(*                                                                         *)
(* The pages are React components.  A component's useState/useRef cells    *)
(* are the variables; every event handler, and every continuation of an    *)
(* async handler after an await, is one action.  The backend, the browser  *)
(* (getUserMedia, MediaRecorder, form constraint validation) and the user  *)
(* are the environment: their choices are the \E of the actions.           *)
(*                                                                         *)
(*   Spec         QueryPage + VoiceRecorder + ResponsePage, driven through *)
(*                the rendered controls (a disabled button cannot fire)    *)
(*   PortalSpec   StudentPortal, driven through the rendered controls      *)
(*   DocSpec      DocumentsPage, driven through the rendered controls      *)
(*   HelperSpec   the badge, label and date helpers applied to any input   *)
(*   HandlerSpec  handleSubmit, handleAddStudent and handleDownload called *)
(*                directly on any state of their page                      *)
(*   ListenSpec   ResponsePage visited again and again, with the audio     *)
(*                elements that earlier visits left playing                *)
(*   PlayerSpec   the AudioPlayer component under any parent               *)
(***************************************************************************)
EXTENDS Naturals, Sequences, FiniteSets, Bags, TLC

\* ------------------------------------------------------------------ bounds
MaxLen == 2          \* longest text handed to a submit handler
MaxPending == 2      \* getUserMedia calls awaiting the browser at once
MaxInFlight == 1     \* requests of one kind awaiting the backend at once
MaxAudios == 2       \* Audio elements of playTextToSpeech playing at once

\* ------------------------------------------------------- optional values
None == <<>>
Some(x) == <<x>>
IsSome(o) == Len(o) = 1
Get(o) == o[1]

\* --------------------------------------------------------------- strings
\* A string is a sequence of characters; " " is the whitespace character.
Chars == {" ", "a", "@"}
Strings == UNION {[1..k -> Chars] : k \in 0..MaxLen}

RECURSIVE TrimStart(_)
TrimStart(s) ==
  IF s # <<>> /\ Head(s) = " " THEN TrimStart(Tail(s)) ELSE s

RECURSIVE TrimEnd(_)
TrimEnd(s) ==
  IF s # <<>> /\ s[Len(s)] = " " THEN TrimEnd(SubSeq(s, 1, Len(s) - 1)) ELSE s

\* String.prototype.trim
Trim(s) == TrimEnd(TrimStart(s))

\* String.prototype.includes, for a one-character needle
Includes(s, c) == \E i \in 1..Len(s) : s[i] = c

\* JavaScript truthiness of a string
Truthy(s) == s # <<>>

\* ------------------------------------------------------------- languages
\* The Select offers en, hi and te (QueryPage.jsx:140-142, part_001:135-137);
\* the user of the model picks between two of them.
Languages == {"en", "hi"}

\* ------------------------------------------------------- backend answers
Ids == {"q1", "q2"}                 \* response.data.id of POST /api/queries
Transcripts == {<<>>, <<"a">>}      \* query_text of POST /api/voice-query
Answers == {<<"a">>}                \* answer of POST /api/voice-query
Detected == {"te"}                  \* language of POST /api/voice-query
Blobs == {"mp3a", "mp3b"}           \* body of POST /api/text-to-speech

\* ----------------------------------------------------------------- toasts
NoToast == "none"
NoRequest == "none"


\* -------------------------------------------------------------- variables
VARIABLES
  page,              \* the route's component: "query", "response", ...
  queryId,           \* useParams().queryId of /response/:queryId
  \* QueryPage state
  queryText, language, isSubmitting, voiceResponse, isPlayingTTS, useVoice,
  \* VoiceRecorder state (the mounted instance)
  isRecording, isSupported, isProcessing, mediaRecorderRef,
  \* browser: getUserMedia calls pending, stop events queued, streams open
  gumPending, stopEvents, openStreams,
  \* requests awaiting the backend
  queryReqs, voiceReqs, ttsReqs,
  \* ResponsePage state
  rQuery, rLoading, rError, isGeneratingSpeech, audioRef, fetchReqs,
  \* browser: the Audio elements made by playTextToSpeech that are playing
  speechPlaying,
  \* DocumentsPage state, and its requests awaiting the backend
  docType, docLanguage, isGenerating, generatedDoc, firDetails, rtiDetails, docReqs,
  \* StudentPortal state
  students, cases, loading, studentDialogOpen, caseDialogOpen, newStudent, newCase,
  \* StudentPortal: fetchData calls made, those awaiting the backend, and the
  \* mutations awaiting the backend
  fetchSeq, fetching, mutReqs,
  \* StudentPortal: the fetchData call whose answer the lists show (0: none)
  shownFetch,
  \* AudioPlayer: its prop and state
  audioId, isPlaying, isLoading, progress, duration,
  \* browser: the <audio> element of AudioPlayer (paused, currentTime) and
  \* whether the promise of its play() is pending
  elPaused, elTime, playPending,
  \* what the last step reported, sent, received, played, saved as a file and
  \* rendered through a helper
  out

qvars == <<queryText, language, isSubmitting, voiceResponse, isPlayingTTS, useVoice>>
recvars == <<isRecording, isSupported, isProcessing, mediaRecorderRef>>
envvars == <<gumPending, stopEvents, openStreams>>
netvars == <<queryReqs, voiceReqs, ttsReqs>>
rvars == <<rQuery, rLoading, rError, isGeneratingSpeech, audioRef, fetchReqs,
           speechPlaying>>
appvars == <<page, queryId, qvars, recvars, envvars, netvars, rvars>>
dvars == <<docType, docLanguage, isGenerating, generatedDoc, firDetails, rtiDetails, docReqs>>
pvars == <<students, cases, loading, studentDialogOpen, caseDialogOpen, newStudent, newCase,
           fetchSeq, fetching, mutReqs, shownFetch>>
avars == <<audioId, isPlaying, isLoading, progress, duration, elPaused, elTime, playPending>>
vars == <<appvars, dvars, pvars, avars, out>>

\* ------------------------------------------------------------------ bags
One(e) == SetToBag({e})
Card(B) == BagCardinality(B)

\* Every entry of B marked as belonging to an unmounted component.
Orphaned(B) ==
  LET S == {[e EXCEPT !.live = FALSE] : e \in BagToSet(B)}
  IN  [d \in S |-> CopiesIn(d, B) + CopiesIn([d EXCEPT !.live = TRUE], B)]

\* ---------------------------------------------------------------- output
Quiet ==
  [toast |-> NoToast, sent |-> NoRequest, body |-> None, recv |-> None, play |-> None,
   saved |-> None, shown |-> None]
Toast(t) == [Quiet EXCEPT !.toast = t]
Sent(r) == [Quiet EXCEPT !.sent = r]
SentBody(r, b) == [Quiet EXCEPT !.sent = r, !.body = Some(b)]
ToastSent(t, r) == [Quiet EXCEPT !.toast = t, !.sent = r]

\* ---------------------------------------------------- initial component state
\* QueryPage.jsx:46-51
QueryPageInit ==
  /\ queryText = <<>>
  /\ language = "en"
  /\ isSubmitting = FALSE
  /\ voiceResponse = None
  /\ isPlayingTTS = FALSE
  /\ useVoice = FALSE

\* Navbar.jsx:145-149
VoiceRecorderInit ==
  /\ isRecording = FALSE
  /\ isSupported = TRUE
  /\ isProcessing = FALSE
  /\ mediaRecorderRef = None

\* part_001:464-468; the effect of lines 470-486 has issued its GET when
\* the route carries a queryId.
ResponsePageInit(mounted) ==
  /\ rQuery = None
  /\ rLoading = TRUE
  /\ rError = None
  /\ isGeneratingSpeech = FALSE
  /\ audioRef = None
  /\ fetchReqs = IF mounted THEN 1 ELSE 0
  /\ speechPlaying = 0

\* ================================================================ QueryPage
OnQuery == page = "query"

\* What the user types into the query box: nothing, a blank, a text
QueryTexts == {<<>>, <<" ">>, <<"a">>}

\* Textarea onChange, QueryPage.jsx:211
TypeQuery(s) ==
  /\ OnQuery
  /\ queryText' = s
  /\ out' = Quiet
  /\ UNCHANGED <<page, queryId, language, isSubmitting, voiceResponse, isPlayingTTS,
                 useVoice, recvars, envvars, netvars, rvars>>
  /\ UNCHANGED <<dvars, pvars, avars>>

\* sampleQueries[language]: every sample is a non-blank text
SampleQueries(l) == {<<"a">>}

\* handleSampleClick and the Load Sample button, QueryPage.jsx:84-86, 157-161
SampleClick ==
  /\ OnQuery
  /\ \E s \in SampleQueries(language) : queryText' = s
  /\ out' = Quiet
  /\ UNCHANGED <<page, queryId, language, isSubmitting, voiceResponse, isPlayingTTS,
                 useVoice, recvars, envvars, netvars, rvars>>
  /\ UNCHANGED <<dvars, pvars, avars>>

\* Select onValueChange={setLanguage}, QueryPage.jsx:135
SetLanguage(l) ==
  /\ OnQuery
  /\ l # language
  /\ language' = l
  /\ out' = Quiet
  /\ UNCHANGED <<page, queryId, queryText, isSubmitting, voiceResponse, isPlayingTTS,
                 useVoice, recvars, envvars, netvars, rvars>>
  /\ UNCHANGED <<dvars, pvars, avars>>

\* The mode toggle, QueryPage.jsx:170-202: {useVoice && <VoiceRecorder/>}.
\* Leaving voice mode unmounts the recorder: its state is dropped and what it
\* has pending goes on without a component; entering mounts a fresh one.
SetUseVoice(b) ==
  /\ OnQuery
  /\ b # useVoice
  /\ useVoice' = b
  /\ isRecording' = FALSE /\ isSupported' = TRUE /\ isProcessing' = FALSE
  /\ mediaRecorderRef' = None
  /\ gumPending' = Orphaned(gumPending)
  /\ stopEvents' = Orphaned(stopEvents)
  /\ voiceReqs' = Orphaned(voiceReqs)
  /\ out' = Quiet
  /\ UNCHANGED <<page, queryId, queryText, language, isSubmitting, voiceResponse,
                 isPlayingTTS, openStreams, queryReqs, ttsReqs, rvars>>
  /\ UNCHANGED <<dvars, pvars, avars>>

\* Faulty variant: the button is not disabled while a submit is under way
SubmitEnabledWhileSubmitting == Trim(queryText) # <<>>

\* The submit button's disabled attribute, QueryPage.jsx:224-229
SubmitEnabled == ~isSubmitting /\ Trim(queryText) # <<>>

\* Faulty variant: the guard without trim()
QueryIsEmpty(q) == q = <<>>

\* The guard of handleSubmit, QueryPage.jsx:91
QueryIsBlank(q) == Trim(q) = <<>>

\* handleSubmit up to its await, QueryPage.jsx:88-101
HandleSubmit ==
  /\ OnQuery
  /\ IF QueryIsBlank(queryText)
       THEN /\ out' = Toast("Please enter your legal query")
            /\ UNCHANGED <<isSubmitting, queryReqs>>
       ELSE /\ isSubmitting' = TRUE
            /\ queryReqs' = queryReqs + 1
            /\ out' = SentBody("queries", [query_text |-> queryText, language |-> language])
  /\ UNCHANGED <<page, queryId, queryText, language, voiceResponse, isPlayingTTS,
                 useVoice, recvars, envvars, voiceReqs, ttsReqs, rvars>>
  /\ UNCHANGED <<dvars, pvars, avars>>

\* The submit button pressed
ClickSubmit == SubmitEnabled /\ HandleSubmit

\* navigate(`/response/${id}`), QueryPage.jsx:104 with the route of part_002:21:
\* QueryPage (and its VoiceRecorder) unmount, ResponsePage mounts and fetches.
NavigateToResponse(id) ==
  /\ page' = "response"
  /\ queryId' = Some(id)
  /\ queryText' = <<>> /\ language' = "en" /\ isSubmitting' = FALSE
  /\ voiceResponse' = None /\ isPlayingTTS' = FALSE /\ useVoice' = FALSE
  /\ isRecording' = FALSE /\ isSupported' = TRUE /\ isProcessing' = FALSE
  /\ mediaRecorderRef' = None
  /\ gumPending' = Orphaned(gumPending)
  /\ stopEvents' = Orphaned(stopEvents)
  /\ voiceReqs' = Orphaned(voiceReqs)
  /\ rQuery' = None /\ rLoading' = TRUE /\ rError' = None
  /\ isGeneratingSpeech' = FALSE /\ audioRef' = None
  /\ fetchReqs' = 1
  /\ UNCHANGED speechPlaying

\* handleSubmit after POST /api/queries answered 2xx, QueryPage.jsx:103-104, 108-110
QueryPostOk(id) ==
  /\ OnQuery
  /\ queryReqs > 0
  /\ queryReqs' = queryReqs - 1
  /\ NavigateToResponse(id)
  /\ out' = [Quiet EXCEPT !.toast = "Query processed successfully!",
                          !.sent = "get-query", !.recv = Some(id)]
  /\ UNCHANGED <<openStreams, ttsReqs>>
  /\ UNCHANGED <<dvars, pvars, avars>>

\* Faulty variant: the catch without the finally, isSubmitting is left set
QueryPostFailNoFinally ==
  /\ OnQuery
  /\ queryReqs > 0
  /\ queryReqs' = queryReqs - 1
  /\ out' = Toast("Failed to process query. Please try again.")
  /\ UNCHANGED <<page, queryId, qvars, recvars, envvars, voiceReqs, ttsReqs, rvars>>
  /\ UNCHANGED <<dvars, pvars, avars>>

\* handleSubmit after POST /api/queries failed, QueryPage.jsx:105-110
QueryPostFail ==
  /\ OnQuery
  /\ queryReqs > 0
  /\ queryReqs' = queryReqs - 1
  /\ isSubmitting' = FALSE
  /\ out' = Toast("Failed to process query. Please try again.")
  /\ UNCHANGED <<page, queryId, queryText, language, voiceResponse, isPlayingTTS,
                 useVoice, recvars, envvars, voiceReqs, ttsReqs, rvars>>
  /\ UNCHANGED <<dvars, pvars, avars>>


\* ============================================================ VoiceRecorder
\* The recorder is rendered by QueryPage in voice mode, QueryPage.jsx:194-202
RecorderMounted == OnQuery /\ useVoice

\* Start button, Navbar.jsx:256-260 (rendered only while isSupported, 241-250)
StartEnabled == RecorderMounted /\ isSupported /\ ~(isRecording \/ isProcessing)

\* Stop button, Navbar.jsx:265-269
StopEnabled == RecorderMounted /\ isSupported /\ ~(~isRecording \/ isProcessing)

\* Microphone acquisitions alive: asked for, or granted and not yet stopped
Acquisitions == Card(gumPending) + openStreams

\* startRecording up to its await, Navbar.jsx:151-153.  processAudio of this
\* render is what the later onstop calls, so the language prop is fixed here.
StartClick ==
  /\ StartEnabled
  /\ Acquisitions < MaxPending
  /\ gumPending' = gumPending (+) One([lang |-> language, live |-> TRUE])
  /\ out' = Quiet
  /\ UNCHANGED <<page, queryId, qvars, recvars, stopEvents, openStreams, netvars, rvars>>
  /\ UNCHANGED <<dvars, pvars, avars>>

\* startRecording after getUserMedia resolved, Navbar.jsx:154-174.  With
\* built = FALSE the MediaRecorder constructor or start() throws and the
\* catch of lines 175-183 runs with the stream left open.
GumResolve(p, built) ==
  /\ BagIn(p, gumPending)
  /\ gumPending' = gumPending (-) One(p)
  /\ openStreams' = openStreams + 1
  /\ IF built
       THEN /\ mediaRecorderRef' = IF p.live THEN Some([lang |-> p.lang, state |-> "recording"])
                                             ELSE mediaRecorderRef
            /\ isRecording' = IF p.live THEN TRUE ELSE isRecording
            /\ out' = Toast("Recording... Click stop when finished")
            /\ UNCHANGED isSupported
       ELSE /\ isSupported' = IF p.live THEN FALSE ELSE isSupported
            /\ out' = Toast("Failed to start recording. Please check your microphone.")
            /\ UNCHANGED <<mediaRecorderRef, isRecording>>
  /\ UNCHANGED <<page, queryId, qvars, isProcessing, stopEvents, netvars, rvars>>
  /\ UNCHANGED <<dvars, pvars, avars>>

\* startRecording after getUserMedia rejected, Navbar.jsx:175-183
GumReject(p, name) ==
  /\ BagIn(p, gumPending)
  /\ gumPending' = gumPending (-) One(p)
  /\ isSupported' = IF p.live THEN FALSE ELSE isSupported
  /\ out' = IF name = "NotAllowedError"
              THEN Toast("Microphone access denied. Please allow microphone access.")
              ELSE Toast("Failed to start recording. Please check your microphone.")
  /\ UNCHANGED <<page, queryId, qvars, isRecording, isProcessing, mediaRecorderRef,
                 stopEvents, openStreams, netvars, rvars>>
  /\ UNCHANGED <<dvars, pvars, avars>>

\* stopRecording, Navbar.jsx:186-193.  MediaRecorder.stop() queues the stop
\* event; on an inactive recorder it throws and the handler ends there.
StopRecording ==
  IF IsSome(mediaRecorderRef) /\ isRecording /\ Get(mediaRecorderRef).state = "recording"
    THEN /\ stopEvents' = stopEvents (+) One([lang |-> Get(mediaRecorderRef).lang, live |-> TRUE])
         /\ mediaRecorderRef' = Some([Get(mediaRecorderRef) EXCEPT !.state = "inactive"])
         /\ isRecording' = FALSE
         /\ isProcessing' = TRUE
         /\ out' = Toast("Processing audio...")
    ELSE /\ out' = Quiet
         /\ UNCHANGED <<stopEvents, mediaRecorderRef, isRecording, isProcessing>>

\* The Stop button pressed
StopClick ==
  /\ StopEnabled
  /\ StopRecording
  /\ UNCHANGED <<page, queryId, qvars, isSupported, gumPending, openStreams, netvars, rvars>>
  /\ UNCHANGED <<dvars, pvars, avars>>

\* Faulty variant: the upload carries the language selected when it is sent
OnStopCurrentLanguage(e) ==
  /\ BagIn(e, stopEvents)
  /\ Card(voiceReqs) < MaxInFlight
  /\ stopEvents' = stopEvents (-) One(e)
  /\ voiceReqs' = voiceReqs (+) One([live |-> e.live])
  /\ out' = SentBody("voice-query", [language |-> language])
  /\ UNCHANGED <<page, queryId, qvars, recvars, gumPending, openStreams, queryReqs,
                 ttsReqs, rvars>>
  /\ UNCHANGED <<dvars, pvars, avars>>

\* onstop up to the await inside processAudio, Navbar.jsx:163-166, 195-205:
\* the blob is POSTed to /api/voice-query with the language of the closure.
OnStop(e) ==
  /\ BagIn(e, stopEvents)
  /\ Card(voiceReqs) < MaxInFlight
  /\ stopEvents' = stopEvents (-) One(e)
  /\ voiceReqs' = voiceReqs (+) One([live |-> e.live])
  /\ out' = SentBody("voice-query", [language |-> e.lang])
  /\ UNCHANGED <<page, queryId, qvars, recvars, gumPending, openStreams, queryReqs,
                 ttsReqs, rvars>>
  /\ UNCHANGED <<dvars, pvars, avars>>

\* Faulty variant: the transcript is not put into the query box
VoiceCallbacksNoTranscript(qt, lang, answer) ==
  /\ queryText' = queryText
  /\ voiceResponse' = IF OnQuery
                        THEN Some([query_text |-> qt, language |-> lang, answer |-> answer])
                        ELSE voiceResponse
  /\ isPlayingTTS' = IF OnQuery THEN TRUE ELSE isPlayingTTS
  /\ ttsReqs' = ttsReqs (+) One([from |-> "query"])

\* handleVoiceTranscript then handleVoiceResponse up to its await,
\* QueryPage.jsx:53-69: state setters act only while QueryPage is mounted.
VoiceCallbacks(qt, lang, answer) ==
  /\ queryText' = IF OnQuery THEN qt ELSE queryText
  /\ voiceResponse' = IF OnQuery
                        THEN Some([query_text |-> qt, language |-> lang, answer |-> answer])
                        ELSE voiceResponse
  /\ isPlayingTTS' = IF OnQuery THEN TRUE ELSE isPlayingTTS
  /\ ttsReqs' = ttsReqs (+) One([from |-> "query"])

\* setIsProcessing(false) of processAudio's finally, Navbar.jsx:223-225
ProcessingDone(u) == isProcessing' = IF u.live THEN FALSE ELSE isProcessing

\* processAudio after POST /api/voice-query answered 2xx, then the rest of
\* onstop, Navbar.jsx:207-219, 223-225, 168-169
VoiceOk(u, qt, lang, answer) ==
  /\ BagIn(u, voiceReqs)
  /\ voiceReqs' = voiceReqs (-) One(u)
  /\ IF Truthy(qt)
       THEN /\ Card(ttsReqs) < MaxInFlight
            /\ VoiceCallbacks(qt, lang, answer)
            /\ out' = [Quiet EXCEPT !.toast = "Voice processed successfully!",
                                    !.sent = "text-to-speech",
                                    !.body = Some([text |-> answer, language |-> lang])]
       ELSE /\ out' = Toast("No speech detected. Please try again.")
            /\ UNCHANGED <<queryText, voiceResponse, isPlayingTTS, ttsReqs>>
  /\ ProcessingDone(u)
  /\ openStreams' = openStreams - 1
  /\ UNCHANGED <<page, queryId, language, isSubmitting, useVoice, isRecording,
                 isSupported, mediaRecorderRef, gumPending, stopEvents, queryReqs,
                 rvars>>
  /\ UNCHANGED <<dvars, pvars, avars>>

\* processAudio after POST /api/voice-query failed, then the rest of onstop,
\* Navbar.jsx:220-225, 168-169 (the toast goes on with the error's message)
VoiceFail(u) ==
  /\ BagIn(u, voiceReqs)
  /\ voiceReqs' = voiceReqs (-) One(u)
  /\ out' = Toast("Failed to process audio")
  /\ ProcessingDone(u)
  /\ openStreams' = openStreams - 1
  /\ UNCHANGED <<page, queryId, qvars, isRecording, isSupported, mediaRecorderRef,
                 gumPending, stopEvents, queryReqs, ttsReqs, rvars>>
  /\ UNCHANGED <<dvars, pvars, avars>>

\* ------------------------------------------------- QueryPage text-to-speech
\* Play Response button, QueryPage.jsx:278-307, up to its await
PlayResponseClick ==
  /\ OnQuery
  /\ IsSome(voiceResponse)
  /\ ~isPlayingTTS
  /\ Card(ttsReqs) < MaxInFlight
  /\ isPlayingTTS' = TRUE
  /\ ttsReqs' = ttsReqs (+) One([from |-> "query"])
  /\ out' = SentBody("text-to-speech", [text |-> Get(voiceResponse).answer,
                                        language |-> Get(voiceResponse).language])
  /\ UNCHANGED <<page, queryId, queryText, language, isSubmitting, voiceResponse,
                 useVoice, recvars, envvars, queryReqs, voiceReqs, rvars>>
  /\ UNCHANGED <<dvars, pvars, avars>>

\* Clear button, QueryPage.jsx:308-314
ClearVoiceResponse ==
  /\ OnQuery
  /\ IsSome(voiceResponse)
  /\ voiceResponse' = None
  /\ out' = Quiet
  /\ UNCHANGED <<page, queryId, queryText, language, isSubmitting, isPlayingTTS,
                 useVoice, recvars, envvars, netvars, rvars>>
  /\ UNCHANGED <<dvars, pvars, avars>>

\* setIsPlayingTTS(false) of the finally, QueryPage.jsx:79-81, 297-299
PlayingDone == isPlayingTTS' = IF OnQuery THEN FALSE ELSE isPlayingTTS

\* Faulty variant: a clip other than the one just received is played
AudioOfFirst(blob) == "mp3a"

\* What QueryPage plays of a text-to-speech answer, QueryPage.jsx:71-74, 289-292
AudioOf(blob) == blob

\* QueryPage after POST /api/text-to-speech answered 2xx,
\* QueryPage.jsx:71-75, 79-81 and 289-293, 297-299
QueryTtsOk(t, blob) ==
  /\ BagIn(t, ttsReqs) /\ t.from # "response"
  /\ ttsReqs' = ttsReqs (-) One(t)
  /\ PlayingDone
  /\ out' = [Quiet EXCEPT !.toast = "Playing AI response...", !.recv = Some(blob),
                          !.play = Some(AudioOf(blob))]
  /\ UNCHANGED <<page, queryId, queryText, language, isSubmitting, voiceResponse,
                 useVoice, recvars, envvars, queryReqs, voiceReqs, rvars>>
  /\ UNCHANGED <<dvars, pvars, avars>>

\* QueryPage after POST /api/text-to-speech failed, QueryPage.jsx:76-81, 294-299
QueryTtsFail(t) ==
  /\ BagIn(t, ttsReqs) /\ t.from # "response"
  /\ ttsReqs' = ttsReqs (-) One(t)
  /\ PlayingDone
  /\ out' = Toast("Failed to play audio response")
  /\ UNCHANGED <<page, queryId, queryText, language, isSubmitting, voiceResponse,
                 useVoice, recvars, envvars, queryReqs, voiceReqs, rvars>>
  /\ UNCHANGED <<dvars, pvars, avars>>


\* ============================================================= ResponsePage
OnResponse == page = "response"

\* What GET /api/queries/{id} may answer
QueryDocs ==
  [response_text : {<<>>, <<"a">>}, detected_language : {None} \cup {Some(l) : l \in Languages}]

\* fetchQuery after the GET answered 2xx, part_001:473-474, 478-480
FetchQueryOk(doc) ==
  /\ OnResponse /\ fetchReqs > 0
  /\ fetchReqs' = fetchReqs - 1
  /\ rQuery' = Some(doc)
  /\ rLoading' = FALSE
  /\ out' = Quiet
  /\ UNCHANGED <<page, queryId, qvars, recvars, envvars, netvars, rError,
                 isGeneratingSpeech, audioRef, speechPlaying>>
  /\ UNCHANGED <<dvars, pvars, avars>>

\* Faulty variant: the catch without the finally, loading is left set
FetchQueryFailNoFinally ==
  /\ OnResponse /\ fetchReqs > 0
  /\ fetchReqs' = fetchReqs - 1
  /\ rError' = Some("Failed to load query response")
  /\ out' = Quiet
  /\ UNCHANGED <<page, queryId, qvars, recvars, envvars, netvars, rQuery, rLoading,
                 isGeneratingSpeech, audioRef, speechPlaying>>
  /\ UNCHANGED <<dvars, pvars, avars>>

\* fetchQuery after the GET failed, part_001:475-480
FetchQueryFail ==
  /\ OnResponse /\ fetchReqs > 0
  /\ fetchReqs' = fetchReqs - 1
  /\ rError' = Some("Failed to load query response")
  /\ rLoading' = FALSE
  /\ out' = Quiet
  /\ UNCHANGED <<page, queryId, qvars, recvars, envvars, netvars, rQuery,
                 isGeneratingSpeech, audioRef, speechPlaying>>
  /\ UNCHANGED <<dvars, pvars, avars>>

\* Which of the three views ResponsePage renders, part_001:527-563
ResponseView ==
  IF rLoading THEN "loading"
  ELSE IF IsSome(rError) \/ ~IsSome(rQuery) THEN "not-found"
  ELSE "guidance"

\* Play Audio Response button, part_001:628-631
PlayEnabled == OnResponse /\ ResponseView = "guidance" /\ ~isGeneratingSpeech

\* query.detected_language || 'en', part_001:495
SpeechLanguage(doc) ==
  IF IsSome(doc.detected_language) THEN Get(doc.detected_language) ELSE "en"

\* playTextToSpeech up to its await, part_001:488-498
PlayTextToSpeech ==
  IF ~IsSome(rQuery) \/ ~Truthy(Get(rQuery).response_text)
    THEN /\ out' = Quiet
         /\ UNCHANGED <<isGeneratingSpeech, ttsReqs>>
    ELSE /\ isGeneratingSpeech' = TRUE
         /\ ttsReqs' = ttsReqs (+) One([from |-> "response"])
         /\ out' = SentBody("text-to-speech", [text |-> Get(rQuery).response_text,
                                               language |-> SpeechLanguage(Get(rQuery))])

\* The Play Audio Response button pressed
PlayClick ==
  /\ PlayEnabled
  /\ Card(ttsReqs) < MaxInFlight
  /\ PlayTextToSpeech
  /\ UNCHANGED <<page, queryId, qvars, recvars, envvars, queryReqs, voiceReqs,
                 rQuery, rLoading, rError, audioRef, fetchReqs, speechPlaying>>
  /\ UNCHANGED <<dvars, pvars, avars>>

\* What ResponsePage plays of a text-to-speech answer, part_001:500-508
SpeechOf(blob) == blob

\* Whether the element of audioRef is playing
RefSounding == IsSome(audioRef) /\ Get(audioRef).sounding

\* if (audioRef.current) audioRef.current.pause(), part_001:503-505: the
\* elements left playing
AfterPause == IF RefSounding THEN speechPlaying - 1 ELSE speechPlaying

\* playTextToSpeech after POST /api/text-to-speech answered 2xx,
\* part_001:500-510, 514-516: the previous element is paused, a new one plays
ResponseTtsOk(t, blob) ==
  /\ OnResponse
  /\ BagIn(t, ttsReqs) /\ t.from = "response"
  /\ ttsReqs' = ttsReqs (-) One(t)
  /\ audioRef' = Some([blob |-> SpeechOf(blob), sounding |-> TRUE])
  /\ speechPlaying' = AfterPause + 1
  /\ isGeneratingSpeech' = FALSE
  /\ out' = [Quiet EXCEPT !.toast = "Playing audio response...", !.recv = Some(blob),
                          !.play = Some(SpeechOf(blob))]
  /\ UNCHANGED <<page, queryId, qvars, recvars, envvars, queryReqs, voiceReqs,
                 rQuery, rLoading, rError, fetchReqs>>
  /\ UNCHANGED <<dvars, pvars, avars>>

\* playTextToSpeech after POST /api/text-to-speech failed, part_001:511-516
ResponseTtsFail(t) ==
  /\ OnResponse
  /\ BagIn(t, ttsReqs) /\ t.from = "response"
  /\ ttsReqs' = ttsReqs (-) One(t)
  /\ isGeneratingSpeech' = FALSE
  /\ out' = Toast("Failed to generate audio. Please try again.")
  /\ UNCHANGED <<page, queryId, qvars, recvars, envvars, queryReqs, voiceReqs,
                 rQuery, rLoading, rError, audioRef, fetchReqs, speechPlaying>>
  /\ UNCHANGED <<dvars, pvars, avars>>

\* The element of audioRef reaches the end of its clip
SpeechEnded ==
  /\ OnResponse
  /\ IsSome(audioRef) /\ Get(audioRef).sounding
  /\ audioRef' = Some([Get(audioRef) EXCEPT !.sounding = FALSE])
  /\ speechPlaying' = speechPlaying - 1
  /\ out' = Quiet
  /\ UNCHANGED <<page, queryId, qvars, recvars, envvars, netvars, rQuery,
                 rLoading, rError, isGeneratingSpeech, fetchReqs>>
  /\ UNCHANGED <<dvars, pvars, avars>>

\* An element that no mounted page refers to reaches the end of its clip
UnreferencedEnded ==
  /\ speechPlaying > (IF RefSounding THEN 1 ELSE 0)
  /\ speechPlaying' = speechPlaying - 1
  /\ out' = Quiet
  /\ UNCHANGED <<page, queryId, qvars, recvars, envvars, netvars, rQuery, rLoading,
                 rError, isGeneratingSpeech, audioRef, fetchReqs>>
  /\ UNCHANGED <<dvars, pvars, avars>>

\* <Link to="/query">, part_001:551-555, 642-651: ResponsePage unmounts with
\* no effect cleanup, so an element that is playing plays on, and a fresh
\* QueryPage mounts.  The link is followed here while no text-to-speech
\* request of the page is awaiting its answer.
AskAnother ==
  /\ OnResponse /\ ResponseView # "loading"
  /\ ~isGeneratingSpeech
  /\ speechPlaying < MaxAudios
  /\ page' = "query"
  /\ queryId' = None
  /\ rQuery' = None /\ rLoading' = TRUE /\ rError' = None
  /\ isGeneratingSpeech' = FALSE /\ audioRef' = None
  /\ fetchReqs' = 0
  /\ out' = Quiet
  /\ UNCHANGED <<qvars, recvars, envvars, netvars, speechPlaying>>
  /\ UNCHANGED <<dvars, pvars, avars>>


\* ============================================================ DocumentsPage
DocTypes == {"FIR", "RTI"}

\* What the user types into a form field: nothing, a blank, a text.
FormTexts == {<<>>, <<" ">>, <<"a">>}

\* Of the FIR and RTI forms only name and address are read by the page; the
\* other fields are copied into the request unchanged.
EmptyDetails == [name |-> <<>>, address |-> <<>>]

\* What POST /api/documents may answer
DocContents == {"doc-a", "doc-b"}

\* part_001:22-57
DocumentsPageInit ==
  /\ docType = "FIR"
  /\ docLanguage = "en"
  /\ isGenerating = FALSE
  /\ generatedDoc = None
  /\ firDetails = EmptyDetails
  /\ rtiDetails = EmptyDetails
  /\ docReqs = EmptyBag

\* Tabs onValueChange={setDocType}, part_001:146
SetDocType(t) ==
  /\ t # docType
  /\ docType' = t
  /\ out' = Quiet
  /\ UNCHANGED <<docLanguage, isGenerating, generatedDoc, firDetails, rtiDetails, docReqs>>
  /\ UNCHANGED <<appvars, pvars, avars>>

\* Select onValueChange={setLanguage}, part_001:130
SetDocLanguage(l) ==
  /\ l # docLanguage
  /\ docLanguage' = l
  /\ out' = Quiet
  /\ UNCHANGED <<docType, isGenerating, generatedDoc, firDetails, rtiDetails, docReqs>>
  /\ UNCHANGED <<appvars, pvars, avars>>

\* The inputs of the form of the selected tab, part_001:155-368
TypeDetail(field, v) ==
  /\ IF docType = "FIR"
       THEN /\ firDetails' = [firDetails EXCEPT ![field] = v]
            /\ UNCHANGED rtiDetails
       ELSE /\ rtiDetails' = [rtiDetails EXCEPT ![field] = v]
            /\ UNCHANGED firDetails
  /\ out' = Quiet
  /\ UNCHANGED <<docType, docLanguage, isGenerating, generatedDoc, docReqs>>
  /\ UNCHANGED <<appvars, pvars, avars>>

\* Faulty variant: the FIR form is read whatever the tab
SelectedDetailsFir == firDetails

\* const details = docType === 'FIR' ? firDetails : rtiDetails, part_001:60
SelectedDetails == IF docType = "FIR" THEN firDetails ELSE rtiDetails

\* !details.name || !details.address, part_001:63
DetailsMissing(details) == ~Truthy(details.name) \/ ~Truthy(details.address)

\* handleGenerateDocument up to its await, part_001:59-78
HandleGenerateDocument ==
  /\ IF DetailsMissing(SelectedDetails)
       THEN /\ out' = Toast("Please fill in at least your name and address")
            /\ UNCHANGED <<isGenerating, docReqs>>
       ELSE /\ isGenerating' = TRUE
            /\ docReqs' = docReqs (+) One([doc_type |-> docType, language |-> docLanguage,
                                              live |-> TRUE])
            /\ out' = SentBody("documents", [doc_type |-> docType, language |-> docLanguage,
                                             details |-> SelectedDetails])
  /\ UNCHANGED <<docType, docLanguage, generatedDoc, firDetails, rtiDetails>>
  /\ UNCHANGED <<appvars, pvars, avars>>

\* Faulty variant: the Generate button is never disabled
GenerateAlwaysEnabled == TRUE

\* Generate button, part_001:372-376
GenerateEnabled == ~isGenerating

\* The Generate button pressed
GenerateClick == GenerateEnabled /\ HandleGenerateDocument

\* handleGenerateDocument after POST /api/documents answered 2xx, part_001:80-81, 85-87
GenerateOk(r, content) ==
  /\ BagIn(r, docReqs)
  /\ docReqs' = docReqs (-) One(r)
  /\ IF r.live
       THEN /\ generatedDoc' = Some([content |-> content, doc_type |-> r.doc_type,
                                     language |-> r.language])
            /\ isGenerating' = FALSE
       ELSE UNCHANGED <<generatedDoc, isGenerating>>
  /\ out' = Toast("Document generated successfully!")
  /\ UNCHANGED <<docType, docLanguage, firDetails, rtiDetails>>
  /\ UNCHANGED <<appvars, pvars, avars>>

\* handleGenerateDocument after POST /api/documents failed, part_001:82-87
GenerateFail(r) ==
  /\ BagIn(r, docReqs)
  /\ docReqs' = docReqs (-) One(r)
  /\ isGenerating' = IF r.live THEN FALSE ELSE isGenerating
  /\ out' = Toast("Failed to generate document")
  /\ UNCHANGED <<docType, docLanguage, generatedDoc, firDetails, rtiDetails>>
  /\ UNCHANGED <<appvars, pvars, avars>>

\* The route left through a Navbar link and entered again, part_002:23:
\* DocumentsPage is unmounted and a fresh one mounted.  A request of the old
\* page stays with the backend; its answer finds no component to update.
DocumentsRemount ==
  /\ Card(docReqs) <= MaxInFlight
  /\ docType' = "FIR" /\ docLanguage' = "en"
  /\ isGenerating' = FALSE /\ generatedDoc' = None
  /\ firDetails' = EmptyDetails /\ rtiDetails' = EmptyDetails
  /\ docReqs' = Orphaned(docReqs)
  /\ out' = Quiet
  /\ UNCHANGED <<appvars, pvars, avars>>

\* Download button, part_001:400-410: {generatedDoc && <Button/>}
DownloadShown == IsSome(generatedDoc)

\* Date.now() at the download
Times == {"t1", "t2"}

\* Faulty variant: without the guard an empty file is saved when nothing was
\* generated
HandleDownloadUnguarded(now) ==
  /\ out' = [Quiet EXCEPT !.toast = "Document downloaded!",
                          !.saved = Some([name |-> [doc_type |-> docType,
                                                    language |-> docLanguage, now |-> now],
                                          text |-> IF IsSome(generatedDoc)
                                                     THEN Get(generatedDoc).content
                                                     ELSE ""])]
  /\ UNCHANGED <<appvars, dvars, pvars, avars>>

\* handleDownload, part_001:90-103: the file is named
\* `${docType}_${language}_${Date.now()}.txt` and holds generatedDoc.content
HandleDownload(now) ==
  /\ IF ~IsSome(generatedDoc)
       THEN out' = Quiet
       ELSE out' = [Quiet EXCEPT !.toast = "Document downloaded!",
                                 !.saved = Some([name |-> [doc_type |-> docType,
                                                           language |-> docLanguage,
                                                           now |-> now],
                                                 text |-> Get(generatedDoc).content])]
  /\ UNCHANGED <<appvars, dvars, pvars, avars>>

\* The Download button pressed
DownloadClick(now) == DownloadShown /\ HandleDownload(now)

\* What the preview shows, part_001:414-418
PreviewText == IF IsSome(generatedDoc) THEN Some(Get(generatedDoc).content) ELSE None

\* ============================================================ StudentPortal
MaxFetches == 3      \* fetchData calls in one run
MaxMutations == 2    \* mutation requests awaiting the backend at once

\* What GET /api/students and GET /api/cases may answer
StudentLists == {{}, {"s1"}}
CaseLists ==
  {{}, {[id |-> "c1", status |-> "open", assigned_student_id |-> None]},
       {[id |-> "c1", status |-> "assigned", assigned_student_id |-> Some("s1")]}}

\* What the user types into the dialogs
EmailTexts == {<<>>, <<"a", "@", "a">>}
CollegeTexts == {<<>>, <<"a">>}
DescriptionTexts == {<<>>, <<"a">>}

\* part_000:92-93 (skills is split into the request and the category of a
\* case is copied into it; neither is read anywhere else)
EmptyStudent == [name |-> <<>>, email |-> <<>>, college |-> <<>>]
EmptyCase == [title |-> <<>>, description |-> <<>>, category |-> "consumer"]

\* fetchData up to its await, part_000:95-101
FetchData ==
  /\ loading' = TRUE
  /\ fetchSeq' = fetchSeq + 1
  /\ fetching' = fetching \cup {fetchSeq + 1}

\* part_000:85-93 and the effect of lines 112-114, which has called fetchData
StudentPortalInit ==
  /\ students = {}
  /\ cases = {}
  /\ shownFetch = 0
  /\ loading = TRUE
  /\ studentDialogOpen = FALSE
  /\ caseDialogOpen = FALSE
  /\ newStudent = EmptyStudent
  /\ newCase = EmptyCase
  /\ fetchSeq = 1
  /\ fetching = {1}
  /\ mutReqs = EmptyBag

\* fetchData after both GETs answered 2xx, part_000:102-103, 107-109
FetchOk(f, S, C) ==
  /\ f \in fetching
  /\ fetching' = fetching \ {f}
  /\ students' = S
  /\ cases' = C
  /\ shownFetch' = f
  /\ loading' = FALSE
  /\ out' = Quiet
  /\ UNCHANGED <<studentDialogOpen, caseDialogOpen, newStudent, newCase, fetchSeq, mutReqs>>
  /\ UNCHANGED <<appvars, dvars, avars>>

\* What a GET may be answered: a list, or nothing when it is rejected
Failed == None
GetAnswers(Lists) == {Failed} \cup {Some(L) : L \in Lists}

\* Faulty variant: the list whose GET was answered is put on display
FetchFailPartial(f, S, C) ==
  /\ f \in fetching
  /\ S = Failed \/ C = Failed
  /\ fetching' = fetching \ {f}
  /\ students' = IF S = Failed THEN students ELSE Get(S)
  /\ cases' = IF C = Failed THEN cases ELSE Get(C)
  /\ loading' = FALSE
  /\ out' = Toast("Failed to load data")
  /\ UNCHANGED <<shownFetch, studentDialogOpen, caseDialogOpen, newStudent, newCase,
                 fetchSeq, mutReqs>>
  /\ UNCHANGED <<appvars, dvars, avars>>

\* fetchData after one of the GETs failed, part_000:104-109: Promise.all
\* (part_000:98-101) rejects when either GET does, S and C being what
\* GET /api/students and GET /api/cases were answered
FetchFail(f, S, C) ==
  /\ f \in fetching
  /\ S = Failed \/ C = Failed
  /\ fetching' = fetching \ {f}
  /\ loading' = FALSE
  /\ out' = Toast("Failed to load data")
  /\ UNCHANGED <<students, cases, shownFetch, studentDialogOpen, caseDialogOpen, newStudent, newCase,
                 fetchSeq, mutReqs>>
  /\ UNCHANGED <<appvars, dvars, avars>>

\* if (loading) return <spinner/>, part_000:211-217
PortalShown == ~loading

CanSend == Card(mutReqs) < MaxMutations /\ fetchSeq + Card(mutReqs) < MaxFetches

Mutation(kind, arg) == [kind |-> kind, arg |-> arg]

\* A handler's catch, part_000:121-123, 157-160, 169-171, 182-184, 195-197, 206-208
MutationFail(r, toast) ==
  /\ BagIn(r, mutReqs)
  /\ mutReqs' = mutReqs (-) One(r)
  /\ out' = Toast(toast)
  /\ UNCHANGED <<students, cases, shownFetch, loading, studentDialogOpen, caseDialogOpen, newStudent,
                 newCase, fetchSeq, fetching>>
  /\ UNCHANGED <<appvars, dvars, avars>>

\* handleSeedData up to its await, part_000:116-118
SeedClick ==
  /\ PortalShown /\ ~studentDialogOpen /\ ~caseDialogOpen
  /\ CanSend
  /\ mutReqs' = mutReqs (+) One(Mutation("seed", <<>>))
  /\ out' = Sent("seed")
  /\ UNCHANGED <<students, cases, shownFetch, loading, studentDialogOpen, caseDialogOpen, newStudent,
                 newCase, fetchSeq, fetching>>
  /\ UNCHANGED <<appvars, dvars, avars>>

\* handleSeedData after POST /api/seed answered 2xx, part_000:119-120
SeedOk(r) ==
  /\ BagIn(r, mutReqs) /\ r.kind = "seed"
  /\ mutReqs' = mutReqs (-) One(r)
  /\ FetchData
  /\ out' = ToastSent("Sample data loaded successfully!", "fetch")
  /\ UNCHANGED <<students, cases, shownFetch, studentDialogOpen, caseDialogOpen, newStudent, newCase>>
  /\ UNCHANGED <<appvars, dvars, avars>>

\* Faulty variant: fetchData is called after a failed seed as well
SeedFailRefetch(r) ==
  /\ r.kind = "seed"
  /\ BagIn(r, mutReqs)
  /\ mutReqs' = mutReqs (-) One(r)
  /\ FetchData
  /\ out' = ToastSent("Failed to seed data", "fetch")
  /\ UNCHANGED <<students, cases, shownFetch, studentDialogOpen, caseDialogOpen, newStudent,
                 newCase>>
  /\ UNCHANGED <<appvars, dvars, avars>>

SeedFail(r) == r.kind = "seed" /\ MutationFail(r, "Failed to seed data")

\* Dialog onOpenChange={setStudentDialogOpen}, part_000:296; a dialog is modal
SetStudentDialog(b) ==
  /\ PortalShown /\ ~caseDialogOpen
  /\ b # studentDialogOpen
  /\ studentDialogOpen' = b
  /\ out' = Quiet
  /\ UNCHANGED <<students, cases, shownFetch, loading, caseDialogOpen, newStudent, newCase, fetchSeq,
                 fetching, mutReqs>>
  /\ UNCHANGED <<appvars, dvars, avars>>

\* The inputs of the Add New Student form, part_000:310-346
TypeStudent(field, v) ==
  /\ PortalShown /\ studentDialogOpen
  /\ newStudent' = [newStudent EXCEPT ![field] = v]
  /\ out' = Quiet
  /\ UNCHANGED <<students, cases, shownFetch, loading, studentDialogOpen, caseDialogOpen, newCase,
                 fetchSeq, fetching, mutReqs>>
  /\ UNCHANGED <<appvars, dvars, avars>>

\* The browser's check of <input type="email">: local@domain
ValidEmailInput(s) ==
  \E i \in 2..(Len(s) - 1) :
    /\ s[i] = "@"
    /\ \A j \in (1..Len(s)) \ {i} : s[j] \notin {"@", " "}

\* The browser submits the student form only if its required inputs are
\* filled and the email input holds an address, part_000:314, 321, 325, 335
StudentFormSubmits ==
  /\ newStudent.name # <<>>
  /\ newStudent.college # <<>>
  /\ ValidEmailInput(newStudent.email)

\* Faulty variant: the '@' check made before the empty-email check
StudentErrorAtFirst(st) ==
  IF Trim(st.name) = <<>> THEN "Please enter student name"
  ELSE IF ~Includes(st.email, "@") THEN "Please enter a valid email address"
  ELSE IF Trim(st.email) = <<>> THEN "Please enter email address"
  ELSE IF Trim(st.college) = <<>> THEN "Please enter college name"
  ELSE NoToast

\* The checks of handleAddStudent in their order, part_000:130-145: the
\* message of the first that fails, or none.
StudentError(st) ==
  IF Trim(st.name) = <<>> THEN "Please enter student name"
  ELSE IF Trim(st.email) = <<>> THEN "Please enter email address"
  ELSE IF ~Includes(st.email, "@") THEN "Please enter a valid email address"
  ELSE IF Trim(st.college) = <<>> THEN "Please enter college name"
  ELSE NoToast

\* handleAddStudent up to its await, part_000:126-152
HandleAddStudent ==
  /\ IF StudentError(newStudent) # NoToast
       THEN /\ out' = Toast(StudentError(newStudent))
            /\ UNCHANGED mutReqs
       ELSE /\ mutReqs' = mutReqs (+) One(Mutation("add-student", <<>>))
            /\ out' = SentBody("students", newStudent)
  /\ UNCHANGED <<students, cases, shownFetch, loading, studentDialogOpen, caseDialogOpen, newStudent,
                 newCase, fetchSeq, fetching>>
  /\ UNCHANGED <<appvars, dvars, avars>>

\* The Add Student form submitted
SubmitStudent ==
  /\ PortalShown /\ studentDialogOpen
  /\ StudentFormSubmits
  /\ CanSend
  /\ HandleAddStudent

\* handleAddStudent after POST /api/students answered 2xx, part_000:153-156
AddStudentOk(r) ==
  /\ BagIn(r, mutReqs) /\ r.kind = "add-student"
  /\ mutReqs' = mutReqs (-) One(r)
  /\ studentDialogOpen' = FALSE
  /\ newStudent' = EmptyStudent
  /\ FetchData
  /\ out' = ToastSent("Student added successfully!", "fetch")
  /\ UNCHANGED <<students, cases, shownFetch, caseDialogOpen, newCase>>
  /\ UNCHANGED <<appvars, dvars, avars>>

AddStudentFail(r) ==
  r.kind = "add-student" /\ MutationFail(r, "Failed to add student. Please try again.")


\* A handler's success path that only reports and refetches,
\* part_000:166-168, 193-194, 203-205
MutationOk(r, toast) ==
  /\ BagIn(r, mutReqs)
  /\ mutReqs' = mutReqs (-) One(r)
  /\ FetchData
  /\ out' = ToastSent(toast, "fetch")
  /\ UNCHANGED <<students, cases, shownFetch, studentDialogOpen, caseDialogOpen, newStudent, newCase>>
  /\ UNCHANGED <<appvars, dvars, avars>>

\* Faulty variant: the DELETE is sent whatever window.confirm answered
DeleteStudentClickUnconfirmed(id, confirmed) ==
  /\ PortalShown /\ ~studentDialogOpen /\ ~caseDialogOpen
  /\ id \in students
  /\ CanSend
  /\ mutReqs' = mutReqs (+) One(Mutation("delete-student", <<id>>))
  /\ out' = SentBody("delete-student", <<id>>)
  /\ UNCHANGED <<students, cases, shownFetch, loading, studentDialogOpen, caseDialogOpen, newStudent,
                 newCase, fetchSeq, fetching>>
  /\ UNCHANGED <<appvars, dvars, avars>>

\* handleDeleteStudent up to its await, part_000:163-166, from the button of
\* a listed student, part_000:386-394; confirmed is window.confirm's answer
DeleteStudentClick(id, confirmed) ==
  /\ PortalShown /\ ~studentDialogOpen /\ ~caseDialogOpen
  /\ id \in students
  /\ CanSend
  /\ IF confirmed
       THEN /\ mutReqs' = mutReqs (+) One(Mutation("delete-student", <<id>>))
            /\ out' = SentBody("delete-student", <<id>>)
       ELSE /\ out' = Quiet
            /\ UNCHANGED mutReqs
  /\ UNCHANGED <<students, cases, shownFetch, loading, studentDialogOpen, caseDialogOpen, newStudent,
                 newCase, fetchSeq, fetching>>
  /\ UNCHANGED <<appvars, dvars, avars>>

DeleteStudentOk(r) == r.kind = "delete-student" /\ MutationOk(r, "Student deleted")

DeleteStudentFail(r) == r.kind = "delete-student" /\ MutationFail(r, "Failed to delete student")

\* Dialog onOpenChange={setCaseDialogOpen}, part_000:409
SetCaseDialog(b) ==
  /\ PortalShown /\ ~studentDialogOpen
  /\ b # caseDialogOpen
  /\ caseDialogOpen' = b
  /\ out' = Quiet
  /\ UNCHANGED <<students, cases, shownFetch, loading, studentDialogOpen, newStudent, newCase, fetchSeq,
                 fetching, mutReqs>>
  /\ UNCHANGED <<appvars, dvars, avars>>

\* The text inputs of the Add New Case form, part_000:423-439
TypeCase(field, v) ==
  /\ PortalShown /\ caseDialogOpen
  /\ newCase' = [newCase EXCEPT ![field] = v]
  /\ out' = Quiet
  /\ UNCHANGED <<students, cases, shownFetch, loading, studentDialogOpen, caseDialogOpen, newStudent,
                 fetchSeq, fetching, mutReqs>>
  /\ UNCHANGED <<appvars, dvars, avars>>

\* The browser submits the case form only if its required inputs are filled,
\* part_000:427, 437
CaseFormSubmits == newCase.title # <<>> /\ newCase.description # <<>>

\* handleAddCase up to its await, part_000:174-177
HandleAddCase ==
  /\ mutReqs' = mutReqs (+) One(Mutation("add-case", <<>>))
  /\ out' = SentBody("cases", newCase)
  /\ UNCHANGED <<students, cases, shownFetch, loading, studentDialogOpen, caseDialogOpen, newStudent,
                 newCase, fetchSeq, fetching>>
  /\ UNCHANGED <<appvars, dvars, avars>>

\* The Add Case form submitted
SubmitCase ==
  /\ PortalShown /\ caseDialogOpen
  /\ CaseFormSubmits
  /\ CanSend
  /\ HandleAddCase

\* handleAddCase after POST /api/cases answered 2xx, part_000:178-181
AddCaseOk(r) ==
  /\ BagIn(r, mutReqs) /\ r.kind = "add-case"
  /\ mutReqs' = mutReqs (-) One(r)
  /\ caseDialogOpen' = FALSE
  /\ newCase' = EmptyCase
  /\ FetchData
  /\ out' = ToastSent("Case added successfully!", "fetch")
  /\ UNCHANGED <<students, cases, shownFetch, studentDialogOpen, newStudent>>
  /\ UNCHANGED <<appvars, dvars, avars>>

AddCaseFail(r) == r.kind = "add-case" /\ MutationFail(r, "Failed to add case")

\* Faulty variant: the Select is rendered for a case of any status
AssignableAnyStatus(c, sid) == c \in cases /\ sid \in students

\* The Assign select is rendered for a case shown as open and lists the
\* students shown, part_000:503-513
Assignable(c, sid) == c \in cases /\ c.status = "open" /\ sid \in students

\* handleAssignCase up to its await, part_000:187-192
AssignCase(c, sid) ==
  /\ PortalShown /\ ~studentDialogOpen /\ ~caseDialogOpen
  /\ Assignable(c, sid)
  /\ CanSend
  /\ mutReqs' = mutReqs (+) One(Mutation("assign-case", <<c.id, sid>>))
  /\ out' = SentBody("assign-case", [id |-> c.id, assigned_student_id |-> sid,
                                     status |-> "assigned"])
  /\ UNCHANGED <<students, cases, shownFetch, loading, studentDialogOpen, caseDialogOpen, newStudent,
                 newCase, fetchSeq, fetching>>
  /\ UNCHANGED <<appvars, dvars, avars>>

AssignCaseOk(r) == r.kind = "assign-case" /\ MutationOk(r, "Case assigned successfully!")

AssignCaseFail(r) == r.kind = "assign-case" /\ MutationFail(r, "Failed to assign case")

\* handleDeleteCase up to its await, part_000:200-203, from the button of a
\* listed case, part_000:521-529
DeleteCaseClick(c, confirmed) ==
  /\ PortalShown /\ ~studentDialogOpen /\ ~caseDialogOpen
  /\ c \in cases
  /\ CanSend
  /\ IF confirmed
       THEN /\ mutReqs' = mutReqs (+) One(Mutation("delete-case", <<c.id>>))
            /\ out' = SentBody("delete-case", <<c.id>>)
       ELSE /\ out' = Quiet
            /\ UNCHANGED mutReqs
  /\ UNCHANGED <<students, cases, shownFetch, loading, studentDialogOpen, caseDialogOpen, newStudent,
                 newCase, fetchSeq, fetching>>
  /\ UNCHANGED <<appvars, dvars, avars>>

DeleteCaseOk(r) == r.kind = "delete-case" /\ MutationOk(r, "Case deleted")

DeleteCaseFail(r) == r.kind = "delete-case" /\ MutationFail(r, "Failed to delete case")

\* ================================================================== helpers
\* JavaScript values handed to and returned by the helpers of part_000:1-53
Undefined == <<"undefined">>
Null == <<"null">>
Str(t) == <<"string", t>>

\* A member inherited from Object.prototype: a function or an object
Inherited(k) == <<"object", k>>

\* Names every object literal inherits from Object.prototype
ObjectPrototype ==
  {"constructor", "toString", "valueOf", "hasOwnProperty", "__proto__"}

\* ToPropertyKey of the value between the brackets
PropertyKey(x) == IF x[1] = "string" THEN x[2] ELSE x[1]

\* table[x] of an object literal: its own member, else the inherited one
Member(table, x) ==
  LET k == PropertyKey(x)
  IN  IF k \in DOMAIN table THEN Str(table[k])
      ELSE IF k \in ObjectPrototype THEN Inherited(k)
      ELSE Undefined

\* v || w
OrElse(v, w) == IF v \in {Undefined, Null, Str("")} THEN w ELSE v

\* part_000:2-10
categoryStyles ==
  ("fir" :> "category-fir") @@ ("rti" :> "category-rti") @@
  ("consumer" :> "category-consumer") @@ ("labour" :> "category-labour") @@
  ("family" :> "category-family") @@ ("property" :> "category-property") @@
  ("general" :> "category-general")

\* part_000:15-23
categoryLabels ==
  ("fir" :> "FIR / Police") @@ ("rti" :> "RTI") @@ ("consumer" :> "Consumer") @@
  ("labour" :> "Labour") @@ ("family" :> "Family") @@ ("property" :> "Property") @@
  ("general" :> "General")

\* part_000:28-32
statusStyles ==
  ("open" :> "status-open") @@ ("assigned" :> "status-assigned") @@
  ("closed" :> "status-closed")

\* part_000:37-41 (the labels of hi and te transliterated)
languageLabels == ("en" :> "English") @@ ("hi" :> "Hindi") @@ ("te" :> "Telugu")

\* part_000:1-12
getCategoryStyle(category) ==
  OrElse(Member(categoryStyles, category), Str(categoryStyles["general"]))

\* part_000:14-25
getCategoryLabel(category) == OrElse(Member(categoryLabels, category), category)

\* part_000:27-34
getStatusStyle(status) == OrElse(Member(statusStyles, status), Str(statusStyles["open"]))

\* part_000:36-43
getLanguageLabel(code) == OrElse(Member(languageLabels, code), code)

\* part_000:45-53: the text of toLocaleDateString('en-IN', ...) for a date
\* string, 'Invalid Date' for a text that is no date
formatDate(dateString) ==
  IF dateString \in {Undefined, Null, Str("")} THEN Str("")
  ELSE IF dateString = Str("2024-01-05") THEN Str("05 Jan 2024")
  ELSE Str("Invalid Date")

Helpers ==
  {"getCategoryStyle", "getCategoryLabel", "getStatusStyle", "getLanguageLabel", "formatDate"}

\* What a page may hand to a helper: a field of a backend document
HelperInputs ==
  {Undefined, Null}
    \cup {Str(t) : t \in DOMAIN categoryStyles \cup DOMAIN statusStyles
                          \cup DOMAIN languageLabels \cup ObjectPrototype
                          \cup {"", "tax", "2024-01-05"}}

Apply(helper, x) ==
  CASE helper = "getCategoryStyle" -> getCategoryStyle(x)
    [] helper = "getCategoryLabel" -> getCategoryLabel(x)
    [] helper = "getStatusStyle" -> getStatusStyle(x)
    [] helper = "getLanguageLabel" -> getLanguageLabel(x)
    [] helper = "formatDate" -> formatDate(x)

\* A badge, label or date rendered through a helper, part_000:495-498,
\* part_001:581-597
Render(helper, x) ==
  /\ out' = [Quiet EXCEPT !.shown = Some([helper |-> helper, arg |-> x,
                                          value |-> Apply(helper, x)])]
  /\ UNCHANGED <<appvars, dvars, pvars, avars>>

\* ============================================================== AudioPlayer
AudioIds == {"a1", "a2"}

\* audio.duration of every clip, in seconds
ClipLength == 4

\* What the Slider hands to onValueChange
SeekValues == {0, 50, 100}

\* AudioPlayer.jsx:8-13, with a paused element at the start of its clip
AudioPlayerInit(id) ==
  /\ audioId = id
  /\ isPlaying = FALSE
  /\ isLoading = FALSE
  /\ progress = 0
  /\ duration = 0
  /\ elPaused = TRUE /\ elTime = 0 /\ playPending = FALSE

PlayerUnmounted == AudioPlayerInit(None)

\* The <audio> element is rendered only with an audioId, AudioPlayer.jsx:65-81.
\* The effect of lines 15-31 runs when audioId changes and then finds the
\* element in audioRef, so a rendered element has the three listeners
\* (attached again on a later change, which repeats the same state updates).
Listening == IsSome(audioId)

\* The parent hands on another audioId: the element gets another src, or is
\* taken away or created; the component's state stays
SetAudioId(id) ==
  /\ id # audioId
  /\ audioId' = id
  /\ elPaused' = TRUE /\ elTime' = 0
  /\ out' = Quiet
  /\ UNCHANGED <<isPlaying, isLoading, progress, duration, playPending>>
  /\ UNCHANGED <<appvars, dvars, pvars>>

\* 'loadedmetadata', AudioPlayer.jsx:17-19
LoadedMetadata ==
  /\ Listening
  /\ duration' = ClipLength
  /\ out' = Quiet
  /\ UNCHANGED <<audioId, isPlaying, isLoading, progress, elPaused, elTime, playPending>>
  /\ UNCHANGED <<appvars, dvars, pvars>>

\* The clip advances and 'timeupdate' fires, AudioPlayer.jsx:21-23
TimeUpdate ==
  /\ Listening /\ ~elPaused /\ elTime < ClipLength
  /\ elTime' = elTime + 1
  /\ progress' = (elTime' * 100) \div ClipLength
  /\ out' = Quiet
  /\ UNCHANGED <<audioId, isPlaying, isLoading, duration, elPaused, playPending>>
  /\ UNCHANGED <<appvars, dvars, pvars>>

\* The clip reaches its end and 'ended' fires, AudioPlayer.jsx:25-28
Ended ==
  /\ Listening /\ ~elPaused /\ elTime = ClipLength
  /\ elPaused' = TRUE
  /\ isPlaying' = FALSE
  /\ progress' = 0
  /\ out' = Quiet
  /\ UNCHANGED <<audioId, isLoading, duration, elTime, playPending>>
  /\ UNCHANGED <<appvars, dvars, pvars>>

\* Faulty variant: isPlaying is set when play() is called
TogglePlayOptimistic ==
  /\ IF ~IsSome(audioId)
       THEN UNCHANGED <<isPlaying, isLoading, elPaused, playPending>>
       ELSE IF isPlaying
              THEN /\ elPaused' = TRUE
                   /\ isPlaying' = FALSE
                   /\ UNCHANGED <<isLoading, playPending>>
              ELSE /\ isLoading' = TRUE
                   /\ playPending' = TRUE
                   /\ isPlaying' = TRUE
                   /\ UNCHANGED elPaused
  /\ out' = Quiet
  /\ UNCHANGED <<audioId, progress, duration, elTime>>
  /\ UNCHANGED <<appvars, dvars, pvars>>

\* togglePlay up to its await, AudioPlayer.jsx:33-42
TogglePlay ==
  /\ IF ~IsSome(audioId)
       THEN UNCHANGED <<isPlaying, isLoading, elPaused, playPending>>
       ELSE IF isPlaying
              THEN /\ elPaused' = TRUE
                   /\ isPlaying' = FALSE
                   /\ UNCHANGED <<isLoading, playPending>>
              ELSE /\ isLoading' = TRUE
                   /\ playPending' = TRUE
                   /\ UNCHANGED <<isPlaying, elPaused>>
  /\ out' = Quiet
  /\ UNCHANGED <<audioId, progress, duration, elTime>>
  /\ UNCHANGED <<appvars, dvars, pvars>>

\* The play button, AudioPlayer.jsx:84-91
PlayButtonClick == IsSome(audioId) /\ ~isLoading /\ TogglePlay

\* togglePlay after play() resolved, AudioPlayer.jsx:42-43, 46-48: the
\* element plays, from the start when it had reached the end
PlayResolved ==
  /\ playPending
  /\ playPending' = FALSE
  /\ isPlaying' = TRUE
  /\ isLoading' = FALSE
  /\ IF IsSome(audioId)
       THEN /\ elPaused' = FALSE
            /\ elTime' = IF elTime = ClipLength THEN 0 ELSE elTime
       ELSE UNCHANGED <<elPaused, elTime>>
  /\ out' = Quiet
  /\ UNCHANGED <<audioId, progress, duration>>
  /\ UNCHANGED <<appvars, dvars, pvars>>

\* togglePlay after play() rejected, AudioPlayer.jsx:44-48
PlayRejected ==
  /\ playPending
  /\ playPending' = FALSE
  /\ isLoading' = FALSE
  /\ out' = Quiet
  /\ UNCHANGED <<audioId, isPlaying, progress, duration, elPaused, elTime>>
  /\ UNCHANGED <<appvars, dvars, pvars>>

\* handleSeek, AudioPlayer.jsx:52-58
HandleSeek(value) ==
  /\ IF IsSome(audioId) /\ duration # 0
       THEN /\ elTime' = (value * duration) \div 100
            /\ progress' = value
       ELSE UNCHANGED <<elTime, progress>>
  /\ out' = Quiet
  /\ UNCHANGED <<audioId, isPlaying, isLoading, duration, elPaused, playPending>>
  /\ UNCHANGED <<appvars, dvars, pvars>>

\* The Slider moved, AudioPlayer.jsx:95-102
SeekSlide(value) == IsSome(audioId) /\ HandleSeek(value)

\* ========================================================== specifications
\* A page that is not the route's component holds its initial state and has
\* nothing pending.
QueryUnmounted ==
  /\ QueryPageInit /\ VoiceRecorderInit
  /\ gumPending = EmptyBag /\ stopEvents = EmptyBag /\ openStreams = 0
  /\ queryReqs = 0 /\ voiceReqs = EmptyBag /\ ttsReqs = EmptyBag

PortalUnmounted ==
  /\ students = {} /\ cases = {} /\ shownFetch = 0 /\ loading = TRUE
  /\ studentDialogOpen = FALSE /\ caseDialogOpen = FALSE
  /\ newStudent = EmptyStudent /\ newCase = EmptyCase
  /\ fetchSeq = 0 /\ fetching = {} /\ mutReqs = EmptyBag

\* ---- QueryPage, VoiceRecorder and ResponsePage through their controls
Init ==
  /\ page \in {"query", "response"}
  /\ queryId \in (IF page = "response" THEN {Some(i) : i \in Ids} ELSE {None})
  /\ QueryUnmounted
  /\ ResponsePageInit(page = "response")
  /\ DocumentsPageInit
  /\ PortalUnmounted
  /\ PlayerUnmounted
  /\ out = Quiet

Next ==
  \/ \E s \in QueryTexts : TypeQuery(s)
  \/ SampleClick
  \/ \E l \in Languages : SetLanguage(l)
  \/ \E b \in BOOLEAN : SetUseVoice(b)
  \/ ClickSubmit
  \/ \E id \in Ids : QueryPostOk(id)
  \/ QueryPostFail
  \/ StartClick
  \/ \E p \in BagToSet(gumPending), built \in BOOLEAN : GumResolve(p, built)
  \/ \E p \in BagToSet(gumPending), name \in {"NotAllowedError", "NotFoundError"} :
       GumReject(p, name)
  \/ StopClick
  \/ \E e \in BagToSet(stopEvents) : OnStop(e)
  \/ \E u \in BagToSet(voiceReqs), qt \in Transcripts, l \in Detected, a \in Answers :
       VoiceOk(u, qt, l, a)
  \/ \E u \in BagToSet(voiceReqs) : VoiceFail(u)
  \/ PlayResponseClick
  \/ ClearVoiceResponse
  \/ \E t \in BagToSet(ttsReqs), b \in Blobs : QueryTtsOk(t, b)
  \/ \E t \in BagToSet(ttsReqs) : QueryTtsFail(t)
  \/ \E d \in QueryDocs : FetchQueryOk(d)
  \/ FetchQueryFail
  \/ PlayClick
  \/ \E t \in BagToSet(ttsReqs), b \in Blobs : ResponseTtsOk(t, b)
  \/ \E t \in BagToSet(ttsReqs) : ResponseTtsFail(t)
  \/ SpeechEnded

Spec == Init /\ [][Next]_vars

\* ---- ResponsePage visited again and again: a query is answered, listened
\* to, the link to /query followed and the next query submitted
ListenInit == Init /\ page = "response"

ListenNext ==
  \/ \E d \in QueryDocs : FetchQueryOk(d)
  \/ FetchQueryFail
  \/ PlayClick
  \/ \E t \in BagToSet(ttsReqs), b \in Blobs : ResponseTtsOk(t, b)
  \/ \E t \in BagToSet(ttsReqs) : ResponseTtsFail(t)
  \/ SpeechEnded
  \/ UnreferencedEnded
  \/ AskAnother
  \/ \E s \in QueryTexts : TypeQuery(s)
  \/ ClickSubmit
  \/ \E id \in Ids : QueryPostOk(id)
  \/ QueryPostFail

ListenSpec == ListenInit /\ [][ListenNext]_vars

\* ---- DocumentsPage through its controls
DocInit ==
  /\ page = "documents" /\ queryId = None
  /\ QueryUnmounted
  /\ ResponsePageInit(FALSE)
  /\ DocumentsPageInit
  /\ PortalUnmounted
  /\ PlayerUnmounted
  /\ out = Quiet

DocNext ==
  \/ \E t \in DocTypes : SetDocType(t)
  \/ \E l \in Languages : SetDocLanguage(l)
  \/ \E f \in {"name", "address"}, v \in FormTexts : TypeDetail(f, v)
  \/ GenerateClick
  \/ \E r \in BagToSet(docReqs), c \in DocContents : GenerateOk(r, c)
  \/ \E r \in BagToSet(docReqs) : GenerateFail(r)
  \/ \E now \in Times : DownloadClick(now)
  \/ DocumentsRemount

DocSpec == DocInit /\ [][DocNext]_vars

\* ---- StudentPortal through its controls
PortalInit ==
  /\ page = "students" /\ queryId = None
  /\ QueryUnmounted
  /\ ResponsePageInit(FALSE)
  /\ DocumentsPageInit
  /\ StudentPortalInit
  /\ PlayerUnmounted
  /\ out = Quiet

PortalResponses ==
  \/ \E f \in fetching, S \in StudentLists, C \in CaseLists : FetchOk(f, S, C)
  \/ \E f \in fetching, S \in GetAnswers(StudentLists), C \in GetAnswers(CaseLists) :
       FetchFail(f, S, C)
  \/ \E r \in BagToSet(mutReqs) : SeedOk(r)
  \/ \E r \in BagToSet(mutReqs) : SeedFail(r)
  \/ \E r \in BagToSet(mutReqs) : AddStudentOk(r)
  \/ \E r \in BagToSet(mutReqs) : AddStudentFail(r)
  \/ \E r \in BagToSet(mutReqs) : DeleteStudentOk(r)
  \/ \E r \in BagToSet(mutReqs) : DeleteStudentFail(r)
  \/ \E r \in BagToSet(mutReqs) : AddCaseOk(r)
  \/ \E r \in BagToSet(mutReqs) : AddCaseFail(r)
  \/ \E r \in BagToSet(mutReqs) : AssignCaseOk(r)
  \/ \E r \in BagToSet(mutReqs) : AssignCaseFail(r)
  \/ \E r \in BagToSet(mutReqs) : DeleteCaseOk(r)
  \/ \E r \in BagToSet(mutReqs) : DeleteCaseFail(r)

PortalNext ==
  \/ PortalResponses
  \/ SeedClick
  \/ \E b \in BOOLEAN : SetStudentDialog(b)
  \/ \E v \in FormTexts : TypeStudent("name", v)
  \/ \E v \in EmailTexts : TypeStudent("email", v)
  \/ \E v \in CollegeTexts : TypeStudent("college", v)
  \/ SubmitStudent
  \/ \E id \in students, ok \in BOOLEAN : DeleteStudentClick(id, ok)
  \/ \E b \in BOOLEAN : SetCaseDialog(b)
  \/ \E v \in FormTexts : TypeCase("title", v)
  \/ \E v \in DescriptionTexts : TypeCase("description", v)
  \/ SubmitCase
  \/ \E c \in cases, sid \in students : AssignCase(c, sid)
  \/ \E c \in cases, ok \in BOOLEAN : DeleteCaseClick(c, ok)

PortalSpec == PortalInit /\ [][PortalNext]_vars

\* ---- AudioPlayer, rendered by a parent that hands it an audioId or none
PlayerInit ==
  /\ page = "player" /\ queryId = None
  /\ QueryUnmounted
  /\ ResponsePageInit(FALSE)
  /\ DocumentsPageInit
  /\ PortalUnmounted
  /\ AudioPlayerInit(None)
  /\ out = Quiet

PlayerNext ==
  \/ \E id \in {None} \cup {Some(a) : a \in AudioIds} : SetAudioId(id)
  \/ LoadedMetadata
  \/ TimeUpdate
  \/ Ended
  \/ PlayButtonClick
  \/ PlayResolved
  \/ PlayRejected
  \/ \E v \in SeekValues : SeekSlide(v)

PlayerSpec == PlayerInit /\ [][PlayerNext]_vars

\* ---- The helpers applied to any field of a backend document
HelperInit ==
  /\ page = "response" /\ queryId \in {Some(i) : i \in Ids}
  /\ QueryUnmounted
  /\ ResponsePageInit(TRUE)
  /\ DocumentsPageInit
  /\ PortalUnmounted
  /\ PlayerUnmounted
  /\ out = Quiet

HelperNext == \E h \in Helpers, x \in HelperInputs : Render(h, x)

HelperSpec == HelperInit /\ [][HelperNext]_vars

\* ---- The submit handlers called on any state of their rendered form
HandlerInit ==
  /\ page \in {"query", "students", "documents"}
  /\ queryId = None
  /\ queryText \in (IF page = "query" THEN Strings ELSE {<<>>})
  /\ language \in (IF page = "query" THEN Languages ELSE {"en"})
  /\ isSubmitting = FALSE /\ voiceResponse = None /\ isPlayingTTS = FALSE
  /\ useVoice = FALSE
  /\ VoiceRecorderInit
  /\ gumPending = EmptyBag /\ stopEvents = EmptyBag /\ openStreams = 0
  /\ queryReqs = 0 /\ voiceReqs = EmptyBag /\ ttsReqs = EmptyBag
  /\ ResponsePageInit(FALSE)
  /\ docType \in (IF page = "documents" THEN DocTypes ELSE {"FIR"})
  /\ docLanguage \in (IF page = "documents" THEN Languages ELSE {"en"})
  /\ isGenerating = FALSE
  /\ generatedDoc \in (IF page = "documents"
                         THEN {None} \cup {Some(d) : d \in [content : DocContents,
                                                           doc_type : DocTypes,
                                                           language : Languages]}
                         ELSE {None})
  /\ firDetails = EmptyDetails /\ rtiDetails = EmptyDetails /\ docReqs = EmptyBag
  /\ students = {} /\ cases = {} /\ shownFetch = 0
  /\ loading = (page # "students")
  /\ studentDialogOpen = (page = "students") /\ caseDialogOpen = FALSE
  /\ newStudent \in (IF page = "students"
                       THEN [name : Strings, email : Strings, college : Strings]
                       ELSE {EmptyStudent})
  /\ newCase = EmptyCase
  /\ fetchSeq = (IF page = "students" THEN 1 ELSE 0)
  /\ fetching = {} /\ mutReqs = EmptyBag
  /\ PlayerUnmounted
  /\ out = Quiet

HandlerNext ==
  \/ queryReqs < MaxInFlight /\ HandleSubmit
  \/ \E id \in Ids : QueryPostOk(id)
  \/ QueryPostFail
  \/ page = "students" /\ PortalShown /\ studentDialogOpen /\ CanSend /\ HandleAddStudent
  \/ \E r \in BagToSet(mutReqs) : AddStudentOk(r)
  \/ \E r \in BagToSet(mutReqs) : AddStudentFail(r)
  \/ \E f \in fetching, S \in StudentLists, C \in CaseLists : FetchOk(f, S, C)
  \/ \E f \in fetching, S \in GetAnswers(StudentLists), C \in GetAnswers(CaseLists) :
       FetchFail(f, S, C)
  \/ page = "documents" /\ \E now \in Times : HandleDownload(now)

HandlerSpec == HandlerInit /\ [][HandlerNext]_vars


\* ============================================================== properties
\* Requests of QueryPage and its recorder awaiting the backend
Outstanding == queryReqs + Card(voiceReqs) + Card(ttsReqs)

\* C1 as stated: on the query page never more than one of POST /api/queries,
\* POST /api/voice-query and POST /api/text-to-speech awaits its response.
C1_OneRequestAtATime == OnQuery => Outstanding <= 1

\* C1 amended: at most one POST /api/queries of the mounted QueryPage awaits
\* its response, and isSubmitting is set exactly while it does; voice uploads
\* and text-to-speech requests may be outstanding beside it.
C1_OneQueryPostAtATime ==
  /\ queryReqs <= 1
  /\ OnQuery => (isSubmitting <=> queryReqs = 1)
  /\ ~OnQuery => queryReqs = 0

\* A query POST and a voice upload await their responses together
C1_Witness == OnQuery /\ isSubmitting /\ queryReqs = 1 /\ Card(voiceReqs) = 1

\* C2: the recorder starts only in the step in which getUserMedia resolved,
\* and the POST /api/voice-query of a recording of the mounted recorder is
\* issued only after Stop and never while isRecording is true.
C2_AcquireRecordUpload ==
  [][/\ (~isRecording /\ isRecording') =>
          \E p \in BagToSet(gumPending) : p.live /\ GumResolve(p, TRUE)
     /\ \A e \in BagToSet(stopEvents) :
          (e.live /\ OnStop(e)) => (~isRecording /\ ~isRecording')]_vars

\* C3: a stop event is turned into one POST /api/voice-query, a failed upload
\* sends nothing again and queues nothing, the failure is reported, and the
\* mounted recorder is then idle (neither processing nor recording).
C3_NoRetry ==
  [][/\ \A e \in BagToSet(stopEvents) :
          OnStop(e) => /\ Card(stopEvents') = Card(stopEvents) - 1
                       /\ Card(voiceReqs') = Card(voiceReqs) + 1
     /\ \A u \in BagToSet(voiceReqs) :
          VoiceFail(u) => /\ out'.sent = NoRequest
                          /\ stopEvents' = stopEvents
                          /\ Card(voiceReqs') = Card(voiceReqs) - 1
                          /\ out'.toast = "Failed to process audio"
                          /\ u.live => (~isProcessing' /\ ~isRecording')]_vars

\* C4: handleSubmit sends POST /api/queries only for a queryText that is
\* non-blank after trimming; for a blank one it sends nothing, reports
\* "Please enter your legal query", leaves isSubmitting false and stays on
\* the page.
C4_SubmitOnlyNonBlank ==
  [][HandleSubmit =>
       IF Trim(queryText) = <<>>
         THEN /\ out'.sent = NoRequest /\ queryReqs' = queryReqs
              /\ out'.toast = "Please enter your legal query"
              /\ ~isSubmitting /\ ~isSubmitting'
              /\ page' = page
         ELSE /\ out'.sent = "queries" /\ queryReqs' = queryReqs + 1
              /\ Get(out'.body).query_text = queryText]_vars

\* handleSubmit has refused a whitespace-only query
C4_Witness ==
  /\ OnQuery /\ queryText # <<>> /\ Trim(queryText) = <<>>
  /\ out.toast = "Please enter your legal query" /\ queryReqs = 0

\* The message handleAddStudent owes a form, check by check
StudentCheck(st, msg) ==
  /\ Trim(st.name) = <<>> => msg = "Please enter student name"
  /\ (Trim(st.name) # <<>> /\ Trim(st.email) = <<>>) => msg = "Please enter email address"
  /\ (Trim(st.name) # <<>> /\ Trim(st.email) # <<>> /\ ~Includes(st.email, "@")) =>
       msg = "Please enter a valid email address"
  /\ (Trim(st.name) # <<>> /\ Trim(st.email) # <<>> /\ Includes(st.email, "@")
        /\ Trim(st.college) = <<>>) => msg = "Please enter college name"

StudentValid(st) ==
  /\ Trim(st.name) # <<>> /\ Trim(st.email) # <<>>
  /\ Includes(st.email, "@") /\ Trim(st.college) # <<>>

\* C5: handleAddStudent sends POST /api/students only for a form whose name,
\* email and college are non-blank after trimming and whose email holds '@';
\* otherwise it sends nothing, reports the first failing check in the order
\* name, empty email, '@', college, and leaves the dialog open and the form
\* as it was.
C5_AddStudentValidated ==
  [][HandleAddStudent =>
       IF StudentValid(newStudent)
         THEN /\ out'.sent = "students" /\ out'.body = Some(newStudent)
              /\ Card(mutReqs') = Card(mutReqs) + 1
         ELSE /\ out'.sent = NoRequest /\ mutReqs' = mutReqs
              /\ StudentCheck(newStudent, out'.toast)
              /\ studentDialogOpen /\ studentDialogOpen'
              /\ newStudent' = newStudent]_vars

\* Two checks fail (the '@' and the college) and the '@' is the one reported
C5_Witness ==
  /\ page = "students" /\ studentDialogOpen
  /\ Trim(newStudent.email) # <<>> /\ Trim(newStudent.college) = <<>>
  /\ out.toast = "Please enter a valid email address" /\ mutReqs = EmptyBag

\* C6: handleGenerateDocument sends POST /api/documents only when name and
\* address of the form of the selected tab are filled in, and then sends
\* that form; otherwise it sends nothing and leaves isGenerating false and
\* generatedDoc as it was.  The form of the other tab decides nothing.
C6_GenerateNeedsNameAndAddress ==
  [][HandleGenerateDocument =>
       LET form == IF docType = "FIR" THEN firDetails ELSE rtiDetails
       IN  IF form.name # <<>> /\ form.address # <<>>
             THEN /\ out'.sent = "documents"
                  /\ Get(out'.body).details = form
                  /\ Get(out'.body).doc_type = docType
                  /\ Card(docReqs') = Card(docReqs) + 1
             ELSE /\ out'.sent = NoRequest /\ docReqs' = docReqs
                  /\ ~isGenerating /\ ~isGenerating'
                  /\ generatedDoc' = generatedDoc]_vars

\* The RTI form is sent while the FIR form is empty
C6_Witness ==
  /\ docType = "RTI" /\ firDetails = EmptyDetails
  /\ out.sent = "documents" /\ Get(out.body).details = rtiDetails

\* C7: a POST /api/cases carries a title and a description that are
\* non-blank after trimming.
C7_CaseValidated ==
  out.sent = "cases" =>
    /\ Trim(Get(out.body).title) # <<>>
    /\ Trim(Get(out.body).description) # <<>>

\* C8: QueryPage is left for /response/{id} exactly in the step in which
\* POST /api/queries answered 2xx, with the id of the answer; a failed POST
\* keeps the page and the typed queryText; isSubmitting is false after both.
C8_NavigateIffPosted ==
  [][/\ (page = "query" /\ page' # "query") =>
          /\ queryReqs' = queryReqs - 1
          /\ page' = "response" /\ IsSome(out'.recv) /\ queryId' = out'.recv
     /\ (\E id \in Ids : QueryPostOk(id)) =>
          /\ page' = "response" /\ IsSome(out'.recv) /\ queryId' = out'.recv
          /\ ~isSubmitting'
     /\ (page = "query" /\ queryReqs' = queryReqs - 1 /\ ~IsSome(out'.recv)) =>
          /\ page' = "query" /\ queryId' = queryId
          /\ queryText' = queryText
          /\ out'.toast = "Failed to process query. Please try again."
          /\ ~isSubmitting']_vars

\* ResponsePage has just been reached with the id the server returned
C8_Witness ==
  /\ page = "response" /\ IsSome(queryId) /\ queryId = out.recv
  /\ out.toast = "Query processed successfully!" /\ ~isSubmitting

\* The voice upload of the mounted recorder is answered in this step
LiveUploadAnswered ==
  \E u \in BagToSet(voiceReqs) : u.live /\ voiceReqs' = voiceReqs (-) One(u)

\* C9: Stop on an active recording sets isProcessing, and the answer or the
\* failure of the upload clears it and leaves the recorder idle with Start
\* enabled.
C9_ProcessingEnds ==
  [][/\ StopClick => (isProcessing' /\ ~isRecording')
     /\ LiveUploadAnswered => (~isProcessing' /\ ~isRecording' /\ StartEnabled')]_vars

\* C10: a clip is played only in the step in which a POST
\* /api/text-to-speech answered 2xx, and it is the clip of that answer; a
\* failed request plays nothing, is reported, and leaves isPlayingTTS
\* (QueryPage) or isGeneratingSpeech (ResponsePage) false.
C10_PlayOnlyReturnedAudio ==
  [][/\ IsSome(out'.play) =>
          /\ Card(ttsReqs') = Card(ttsReqs) - 1
          /\ out'.play = out'.recv
     /\ audioRef' # audioRef /\ IsSome(audioRef') /\ Get(audioRef').sounding =>
          /\ Card(ttsReqs') = Card(ttsReqs) - 1
          /\ Some(Get(audioRef').blob) = out'.recv
          /\ ~isGeneratingSpeech'
     /\ \A t \in BagToSet(ttsReqs) :
          (ttsReqs' = ttsReqs (-) One(t) /\ ~IsSome(out'.recv)) =>
            /\ ~IsSome(out'.play) /\ audioRef' = audioRef
            /\ IF t.from = "query"
                 THEN out'.toast = "Failed to play audio response" /\ ~isPlayingTTS'
                 ELSE /\ out'.toast = "Failed to generate audio. Please try again."
                      /\ ~isGeneratingSpeech']_vars

\* QueryPage plays the second of the clips the backend may return
C10_Witness ==
  /\ OnQuery /\ out.toast = "Playing AI response..."
  /\ out.play = Some("mp3b") /\ out.recv = Some("mp3b") /\ ~isPlayingTTS

\* C11: the Download button is rendered exactly when generatedDoc is set;
\* handleDownload saves a file whose text is the content shown in the
\* preview, and with no generated document it saves nothing, reports
\* nothing and changes nothing.
C11_DownloadGenerated ==
  [][\A now \in Times :
       HandleDownload(now) =>
         /\ DownloadShown <=> generatedDoc # None
         /\ IF generatedDoc = None
              THEN out' = Quiet /\ UNCHANGED dvars
              ELSE /\ IsSome(out'.saved) /\ IsSome(PreviewText)
                   /\ Get(out'.saved).text = Get(PreviewText)
                   /\ Get(out'.saved).text = Get(generatedDoc).content
                   /\ UNCHANGED dvars]_vars

\* The second of the documents the backend may return has been saved
C11_Witness ==
  /\ page = "documents" /\ IsSome(generatedDoc) /\ Get(generatedDoc).content = "doc-b"
  /\ IsSome(out.saved) /\ Get(out.saved).text = "doc-b"
  /\ out.toast = "Document downloaded!"

\* What each mutation reports when its request succeeded and when it failed
SuccessToast ==
  [k \in {"seed", "add-student", "delete-student", "add-case", "assign-case", "delete-case"} |->
     CASE k = "seed" -> "Sample data loaded successfully!"
       [] k = "add-student" -> "Student added successfully!"
       [] k = "delete-student" -> "Student deleted"
       [] k = "add-case" -> "Case added successfully!"
       [] k = "assign-case" -> "Case assigned successfully!"
       [] k = "delete-case" -> "Case deleted"]

FailureToast ==
  [k \in {"seed", "add-student", "delete-student", "add-case", "assign-case", "delete-case"} |->
     CASE k = "seed" -> "Failed to seed data"
       [] k = "add-student" -> "Failed to add student. Please try again."
       [] k = "delete-student" -> "Failed to delete student"
       [] k = "add-case" -> "Failed to add case"
       [] k = "assign-case" -> "Failed to assign case"
       [] k = "delete-case" -> "Failed to delete case"]

\* C12: the students and cases lists change only in the step in which a
\* fetchData call succeeded; the answer of a mutation calls fetchData when it
\* is a success and only then, and a failed mutation leaves the lists alone
\* and fetches nothing; fetchData is called by nothing else.
C12_ListsOnlyFromBackend ==
  [][/\ (students' # students \/ cases' # cases) =>
          /\ \E f \in fetching : fetching' = fetching \ {f}
          /\ fetchSeq' = fetchSeq /\ mutReqs' = mutReqs
          /\ out'.toast # "Failed to load data"
     /\ \A r \in BagToSet(mutReqs) :
          mutReqs' = mutReqs (-) One(r) =>
            /\ students' = students /\ cases' = cases
            /\ \/ /\ out'.toast = SuccessToast[r.kind]
                  /\ fetchSeq' = fetchSeq + 1 /\ fetching' = fetching \cup {fetchSeq'}
                  /\ loading' /\ out'.sent = "fetch"
               \/ /\ out'.toast = FailureToast[r.kind]
                  /\ fetchSeq' = fetchSeq /\ fetching' = fetching
                  /\ loading' = loading /\ out'.sent = NoRequest
     /\ fetchSeq' # fetchSeq =>
          \E r \in BagToSet(mutReqs) :
            mutReqs' = mutReqs (-) One(r) /\ out'.toast = SuccessToast[r.kind]]_vars

\* A mutation has failed with a student on display and nothing is fetched
C12_Witness ==
  /\ page = "students" /\ students # {} /\ fetching = {} /\ ~loading
  /\ out.toast = "Failed to delete student" /\ out.sent = NoRequest

\* C13: getCategoryStyle gives the class of a known category and
\* 'category-general' for every other input, getStatusStyle gives
\* 'status-open' for every status other than open, assigned and closed,
\* getCategoryLabel and getLanguageLabel give back an input that is not in
\* their table, and formatDate gives '' for an empty input.
C13_HelpersTotal ==
  IsSome(out.shown) =>
    LET h == Get(out.shown).helper
        x == Get(out.shown).arg
        v == Get(out.shown).value
        In(table) == x[1] = "string" /\ x[2] \in DOMAIN table
    IN  /\ h = "getCategoryStyle" =>
             v = IF In(categoryStyles) THEN Str(categoryStyles[x[2]])
                 ELSE Str("category-general")
        /\ h = "getStatusStyle" =>
             v = IF In(statusStyles) THEN Str(statusStyles[x[2]]) ELSE Str("status-open")
        /\ h = "getCategoryLabel" =>
             v = IF In(categoryLabels) THEN Str(categoryLabels[x[2]]) ELSE x
        /\ h = "getLanguageLabel" =>
             v = IF In(languageLabels) THEN Str(languageLabels[x[2]]) ELSE x
        /\ (h = "formatDate" /\ x = Str("")) => v = Str("")

\* C14: an upload answered with a non-empty query_text calls onTranscript
\* and onVoiceResponse once each: QueryPage then holds the transcript in
\* queryText and the transcript, language and answer in voiceResponse, and
\* one text-to-speech request has been issued for the answer; an empty
\* query_text or a failed upload calls neither and leaves queryText and
\* voiceResponse as they were.
C14_VoiceCallbacks ==
  [][\A u \in BagToSet(voiceReqs) :
       /\ \A qt \in Transcripts, l \in Detected, a \in Answers :
            VoiceOk(u, qt, l, a) =>
              IF qt # <<>>
                THEN /\ OnQuery =>
                          /\ queryText' = qt
                          /\ voiceResponse' =
                               Some([query_text |-> qt, language |-> l, answer |-> a])
                     /\ Card(ttsReqs') = Card(ttsReqs) + 1
                     /\ out'.sent = "text-to-speech"
                     /\ out'.body = Some([text |-> a, language |-> l])
                ELSE /\ queryText' = queryText /\ voiceResponse' = voiceResponse
                     /\ ttsReqs' = ttsReqs /\ out'.sent = NoRequest
       /\ VoiceFail(u) =>
            /\ queryText' = queryText /\ voiceResponse' = voiceResponse
            /\ ttsReqs' = ttsReqs /\ out'.sent = NoRequest]_vars

\* The transcript of a voice upload has just been put on QueryPage
C14_Witness ==
  /\ OnQuery /\ out.toast = "Voice processed successfully!"
  /\ queryText = <<"a">> /\ IsSome(voiceResponse)
  /\ Get(voiceResponse).query_text = queryText /\ Card(ttsReqs) = 1

\* The generation requests of the mounted DocumentsPage awaiting the backend
OwnDocReqs ==
  Card([r \in {e \in BagToSet(docReqs) : e.live} |-> CopiesIn(r, docReqs)])

\* C15: the mounted documents page has at most one generation request
\* outstanding, and isGenerating is true exactly while that request awaits
\* the backend: the Generate button is disabled for that time and enabled
\* again once the request is answered, successfully or not.
C15_OneGenerationAtATime ==
  /\ OwnDocReqs <= 1
  /\ isGenerating <=> OwnDocReqs = 1
  /\ GenerateEnabled <=> OwnDocReqs = 0

\* A request of the mounted page is awaiting the backend beside one of a
\* page that was left
C15_Witness ==
  isGenerating /\ OwnDocReqs = 1 /\ ~GenerateEnabled /\ Card(docReqs) = 2

\* C15 as stated, counting every POST /api/documents awaiting its response,
\* those of a page that has been left included
C15_OneGenerationOutstanding ==
  /\ Card(docReqs) <= 1
  /\ isGenerating <=> Card(docReqs) = 1

\* C16: the portal's loading flag is true as long as a fetchData call is
\* awaiting its answer and false once none is, also when several mutations
\* were started before the first refetch began.
C16_LoadingWhileFetching == loading <=> fetching # {}

\* C17: once no portal request is awaiting its answer, the lists displayed
\* are those returned to the most recently issued fetchData call: the
\* answer to an older call never replaces the answer to a newer one.
C17_NewestFetchShown ==
  [][\A f \in fetching, S \in StudentLists, C \in CaseLists :
       FetchOk(f, S, C) => f > shownFetch]_vars

\* C18: fetchData replaces the two lists together or not at all: answered
\* on both GETs it puts both answers on display; when either GET fails,
\* students and cases both keep their previous values, 'Failed to load
\* data' is reported and loading is set false.  No step changes one list
\* without being the answer to both GETs.
C18_BothListsOrNeither ==
  [][/\ (students' # students \/ cases' # cases) =>
          \E f \in fetching, S \in StudentLists, C \in CaseLists :
            FetchOk(f, S, C) /\ students' = S /\ cases' = C
     /\ (fetching' # fetching /\ fetchSeq' = fetchSeq) =>
          \/ /\ out'.toast = NoToast /\ ~loading'
             /\ \E f \in fetching, S \in StudentLists, C \in CaseLists :
                  FetchOk(f, S, C) /\ students' = S /\ cases' = C
          \/ /\ out'.toast = "Failed to load data" /\ ~loading'
             /\ students' = students /\ cases' = cases]_vars

\* A refetch has failed and the lists of the earlier fetch are still shown
C18_Witness ==
  /\ page = "students" /\ out.toast = "Failed to load data" /\ ~loading
  /\ students # {} /\ cases # {} /\ shownFetch = 1 /\ fetchSeq = 2 /\ fetching = {}

\* C19: the delete button of a student or of a case sends its DELETE
\* request exactly when window.confirm answered true, for the row that was
\* clicked; when the user declines nothing is sent and nothing is fetched.
\* No other step sends a DELETE.
C19_DeleteIffConfirmed ==
  [][/\ \A id \in students, ok \in BOOLEAN :
          DeleteStudentClick(id, ok) =>
            IF ok THEN /\ out'.sent = "delete-student" /\ out'.body = Some(<<id>>)
                       /\ Card(mutReqs') = Card(mutReqs) + 1
                  ELSE /\ out'.sent = NoRequest /\ mutReqs' = mutReqs
                       /\ fetchSeq' = fetchSeq /\ fetching' = fetching
     /\ \A c \in cases, ok \in BOOLEAN :
          DeleteCaseClick(c, ok) =>
            IF ok THEN /\ out'.sent = "delete-case" /\ out'.body = Some(<<c.id>>)
                       /\ Card(mutReqs') = Card(mutReqs) + 1
                  ELSE /\ out'.sent = NoRequest /\ mutReqs' = mutReqs
                       /\ fetchSeq' = fetchSeq /\ fetching' = fetching
     /\ out'.sent = "delete-student" => \E id \in students : DeleteStudentClick(id, TRUE)
     /\ out'.sent = "delete-case" => \E c \in cases : DeleteCaseClick(c, TRUE)]_vars

\* The deletion of the displayed case has been confirmed and sent
C19_Witness ==
  /\ page = "students" /\ out.sent = "delete-case" /\ out.body = Some(<<"c1">>)
  /\ Card(mutReqs) = 1 /\ fetching = {}

\* C20: a PATCH that assigns a case is sent only for a case displayed with
\* status 'open', and carries status 'assigned' and the id of a student of
\* the displayed list; a case displayed with another status has no
\* assignment control.
C20_AssignOnlyOpenCases ==
  [][/\ out'.sent = "assign-case" =>
          \E c \in cases, sid \in students :
            /\ c.status = "open"
            /\ AssignCase(c, sid)
            /\ out'.body = Some([id |-> c.id, assigned_student_id |-> sid,
                                 status |-> "assigned"])
     /\ \A c \in cases, sid \in students : AssignCase(c, sid) => c.status = "open"]_vars

\* The displayed open case has been assigned to the displayed student
C20_Witness ==
  /\ page = "students" /\ out.sent = "assign-case"
  /\ Get(out.body) = [id |-> "c1", assigned_student_id |-> "s1", status |-> "assigned"]
  /\ \E c \in cases : c.id = "c1" /\ c.status = "open"
  /\ "s1" \in students

\* C21: in the voice recorder isRecording and isProcessing are never both
\* true, whatever the order of Start and Stop clicks, getUserMedia answers
\* and upload answers.
C21_RecordingXorProcessing == ~(isRecording /\ isProcessing)

\* The mounted recorder has nothing recording, queued or uploading
RecorderIdle ==
  /\ RecorderMounted /\ ~isRecording /\ ~isProcessing
  /\ gumPending = EmptyBag /\ stopEvents = EmptyBag /\ voiceReqs = EmptyBag

\* C22: when the upload of a recording of the mounted recorder is answered
\* and leaves the recorder idle, no microphone stream is open any more.
C22_StreamsClosedWhenIdle ==
  [][\A u \in BagToSet(voiceReqs) :
       (u.live /\ voiceReqs' = voiceReqs (-) One(u) /\ RecorderIdle') =>
         openStreams' = 0]_vars

\* C23: a recorder whose start has failed (isSupported false) is not
\* recording and never starts to record.
C23_NoRecordingAfterFailure == RecorderMounted /\ ~isSupported => ~isRecording

\* C24: the language sent with a voice upload is the language that was
\* selected when Start was pressed for the recording: Start fixes it, the
\* recorder built for that Start keeps it, Stop hands on the language of
\* the recorder it stops, and the upload carries it, whatever is selected
\* by then.
C24_LanguageOfStart ==
  [][/\ StartClick =>
          gumPending' = gumPending (+) One([lang |-> language, live |-> TRUE])
     /\ \A p \in BagToSet(gumPending) :
          (p.live /\ GumResolve(p, TRUE)) => Get(mediaRecorderRef').lang = p.lang
     /\ (StopClick /\ stopEvents' # stopEvents) =>
          stopEvents' =
            stopEvents (+) One([lang |-> Get(mediaRecorderRef).lang, live |-> TRUE])
     /\ \A e \in BagToSet(stopEvents) :
          OnStop(e) => out'.body = Some([language |-> e.lang])]_vars

\* An upload carries a language other than the one now selected
C24_Witness ==
  /\ OnQuery /\ useVoice /\ out.sent = "voice-query"
  /\ Get(out.body).language = "en" /\ language = "hi"

\* C25: the file saved by Download is named after the document type and
\* the language with which the previewed document was generated.
C25_FileNamedAfterGeneratedDoc ==
  [][\A now \in Times :
       (IsSome(generatedDoc) /\ DownloadClick(now)) =>
         /\ Get(out'.saved).name.doc_type = Get(generatedDoc).doc_type
         /\ Get(out'.saved).name.language = Get(generatedDoc).language]_vars

\* C26: on the response page at most one text-to-speech audio is playing
\* at any time.
C26_OneSpeechAtATime == OnResponse => speechPlaying <= 1

\* C27: on the query page isPlayingTTS holds while the audio of a voice
\* response is playing: in the state in which QueryPage has just started a
\* clip the flag is set, so that the Play Response button is disabled.
C27_PlayingFlagWhilePlaying ==
  (OnQuery /\ IsSome(out.play) /\ out.toast = "Playing AI response...") => isPlayingTTS

C29_AudioPlayerFlags ==
  /\ [](isLoading <=> playPending)
  /\ [][/\ (~isPlaying /\ isPlaying') => PlayResolved
        /\ (isPlaying /\ ~isPlaying') =>
             \/ PlayButtonClick /\ elPaused'
             \/ Ended /\ progress' = 0
        /\ PlayRejected => (~isPlaying /\ ~isPlaying' /\ ~isLoading')
        /\ PlayResolved => ~isLoading'
        /\ \A v \in SeekValues :
             (duration = 0 /\ HandleSeek(v)) => UNCHANGED <<appvars, dvars, pvars, avars>>]_vars

\* The clip has played to its end and the player is reset
C29_Witness ==
  /\ IsSome(audioId) /\ duration = ClipLength /\ elTime = ClipLength /\ elPaused
  /\ ~isPlaying /\ ~isLoading /\ progress = 0

=============================================================================
